---- MODULE Spec2Model ----
(***************************************************************************)
(* Browser-side chat UI of the HR analytics assistant: the backend         *)
(* response handler and message renderer (backend-module.js, core-app.js), *)
(* the ask request life cycle and call mode (backend-module.js,            *)
(* call-mode-module.js, speech-module.js), the chart-selection flow        *)
(* (visualization-module.js), the dashboard renderer's per-table maps and  *)
(* the text-driven chart hook (simple_visualization_fixed.js).             *)
(***************************************************************************)
EXTENDS Integers, Sequences, FiniteSets, TLC

(***************************************************************************)
(* Bounds                                                                  *)
(***************************************************************************)
MaxAsks == 2
MaxTurns == 1
MaxClears == 1
MaxCalls == 1
MaxCharts == 1

(***************************************************************************)
(* Values of the backend response fields.  A field that the code only      *)
(* tests for truthiness is a BOOLEAN (TRUE = present and truthy).          *)
(***************************************************************************)
NoTurn == "none"
TurnIds == {"t1", "t2"}
ChartIdNames == <<"c1", "c2", "c3", "c4">>
ChartIds == {ChartIdNames[i] : i \in 1..Len(ChartIdNames)}
Keys == TurnIds \cup ChartIds

PlainAnswer == "Hello"
NumbersAnswer == "Band 3: 315"
AnswerVals == {"", PlainAnswer, NumbersAnswer}

\* resp.data: absent/null, {}, {columns:[a,b], rows:[]}, {columns:"a,b", rows:[r..]},
\* {rows:[r..]} and the well-formed {columns:[a,b], rows:[r..]}
DataVals == {"missing", "emptyObj", "emptyRows", "badCols", "rowsOnly", "table"}
AuthorizedVals == {"absent", "false"}
MessageTypes == {"analytics_result", "other"}
FlagVals == {"absent", "true", "false"}

Responses ==
  [ error : BOOLEAN, authorized : AuthorizedVals, message_type : MessageTypes,
    data : DataVals, narrative : BOOLEAN, analysis : BOOLEAN, legacy : BOOLEAN,
    visualization_available : FlagVals, conversation_id : BOOLEAN,
    turn_id : {NoTurn, "t1"}, visualization : BOOLEAN, answer : AnswerVals ]

\* the answers of a conversation: analytics results with or without a table
\* or with rows only, with the offer flag set or cleared, with or without
\* numbers in the text
VizResponses ==
  [ error : {FALSE}, authorized : {"absent"}, message_type : {"analytics_result"},
    data : {"missing", "rowsOnly", "table"}, narrative : {FALSE}, analysis : {FALSE},
    legacy : {FALSE}, visualization_available : {"true", "false"},
    conversation_id : {TRUE}, turn_id : {NoTurn} \cup TurnIds,
    visualization : {FALSE}, answer : {PlainAnswer, NumbersAnswer} ]

NoResp == [none |-> TRUE]
NoData == [none |-> TRUE]
NoJob == [none |-> TRUE]

(***************************************************************************)
(* Shape tests on a data value, as JavaScript evaluates them.              *)
(***************************************************************************)
DataTruthy(d) == d # "missing"
HasColumns(d) == d \in {"emptyRows", "badCols", "table"}
ColumnsIsArray(d) == d \in {"emptyRows", "table"}
HasRows(d) == d \in {"emptyRows", "badCols", "rowsOnly", "table"}
RowsIsArray(d) == HasRows(d)
RowsNonEmpty(d) == d \in {"badCols", "rowsOnly", "table"}
WellFormedTable(d) == ColumnsIsArray(d) /\ RowsNonEmpty(d)

(***************************************************************************)
(* The object handed to addMessage as responseData.  top is the shape of   *)
(* its own columns/rows, legacy stands for type/highest/lowest/total.      *)
(***************************************************************************)
WrapAnalytics(data) ==
  [ top |-> "missing", legacy |-> FALSE, data |-> data.data,
    narrative |-> data.narrative, analysis |-> data.analysis,
    turn_id |-> data.turn_id ]

WholeResponse(data) ==
  [ top |-> IF data.legacy THEN "rowsOnly" ELSE "missing", legacy |-> data.legacy,
    data |-> data.data, narrative |-> data.narrative, analysis |-> data.analysis,
    turn_id |-> data.turn_id ]

isHRAnalyticsResponse(rd) ==
  IF rd = NoData THEN FALSE
  ELSE \/ (HasColumns(rd.top) /\ HasRows(rd.top) /\ ColumnsIsArray(rd.top)
             /\ RowsIsArray(rd.top) /\ RowsNonEmpty(rd.top))
       \/ rd.legacy
       \/ (DataTruthy(rd.data) /\ HasColumns(rd.data) /\ HasRows(rd.data)
             /\ ColumnsIsArray(rd.data) /\ RowsIsArray(rd.data) /\ RowsNonEmpty(rd.data))
       \/ rd.analysis \/ rd.narrative
       \/ (rd.legacy \/ (HasRows(rd.top) /\ RowsIsArray(rd.top)))

\* the table extractAnalyticsData returns ("missing" = null)
extractAnalyticsData(rd) ==
  IF rd = NoData THEN "missing"
  ELSE IF DataTruthy(rd.data) /\ HasColumns(rd.data) /\ HasRows(rd.data) THEN rd.data
  ELSE IF HasColumns(rd.top) /\ HasRows(rd.top) THEN rd.top
  ELSE "missing"

\* the entry cacheHRAnalyticsData stores for a table ("missing" = nothing stored)
cacheHRAnalyticsData(table) ==
  IF table = "missing" THEN "missing"
  ELSE IF HasColumns(table) /\ HasRows(table) THEN table
  ELSE IF HasRows(table) /\ RowsIsArray(table) /\ RowsNonEmpty(table) THEN table
  ELSE "missing"

(***************************************************************************)
(* handleBackendResponse: the classification of a response.                *)
(***************************************************************************)
isAnalyticsResult(data) == data.message_type = "analytics_result"

analyticsDataOf(data) == IF isAnalyticsResult(data) THEN data.data ELSE "missing"

\* the fourth argument of addMessage in the regular-text branch: none
TextBranchData_Whole(data) == WholeResponse(data)
TextBranchData(data) == NoData

\* the fourth argument of addMessage that reaches the original addMessage:
\* the hook of simple_visualization_fixed.js forwards three arguments only
ForwardedData(hooked, rd) == IF hooked THEN NoData ELSE rd

Text(tag, body) == [tag |-> tag, body |-> body]
NoText == Text("none", "")

\* hrDataPatterns / extractHRDataFromText on the texts of the model
HasHRData(text) == text.body = NumbersAnswer

(***************************************************************************)
(* State                                                                   *)
(***************************************************************************)
VARIABLES
  hookInstalled,        \* simple_visualization_fixed.js wrapped CoreApp.addMessage
  inflight,             \* a response handed to handleBackendResponse directly
  lastResp,             \* the response handled last
  isWaitingForResponse, isTextOnlyMode, isVoiceToTextMode,
  lastBot,              \* the bot element appended last to #messages
  dashEls,              \* dashboards in #messages, by messageId
  renderedAnalytics,    \* keys of EnhancedHRAnalyticsRenderer.renderedAnalytics
  tableSortState,       \* keys of EnhancedHRAnalyticsRenderer.tableSortState
  nextMessageId,
  dashTurn,             \* messageId -> turn_id of the response it renders
  vizSessions, hrAnalyticsCache, chartInstances, currentChartId,
  chartEls,             \* chart containers in #messages, by chartId
  chartMeta,            \* ChartExportManager.chartMetadata: chartId -> turnId
  bubble,               \* the single .visualization-offer-bubble
  pendingOffers,        \* renderVisualizationOffer calls awaiting /api/viz/chart-types
  selectTimers,         \* pending selectChart timers (500 ms)
  legacyCharts,         \* legacy Chart.js instances in chartInstances
  legacyEls,            \* legacy chart bubbles in #messages
  trigPending,          \* pending hook timers (500 ms), by "text has HR data"
  chartTimers,          \* pending createSimpleChart timers (1000 ms)
  simpleCharts,         \* pie charts of the hook in #messages
  speechTimers,         \* pending scheduleAutoSpeech timers
  spoken,               \* speakText was called by a timer
  isCallModeActive, continuousListening, isProcessingCall, isListening,
  reqStage,             \* askBackend calls that sent a request, by position
  reqTimer,             \* the 45 s abort timer of the pending fetch is armed
  reqIndicator,         \* the processing message of the request is in #messages
  reqCaller,            \* the handleCallModeInput invocation awaiting the request (0 = none)
  hasActiveChat,        \* activeChatId is not null
  callPc,               \* handleCallModeInput invocations, by position
  sendTimers,           \* a speech-driven send timer (500 ms) is pending, by input
  historyPending,       \* loadSession calls awaiting the /history fetch
  chatVisible,          \* the chat pane is shown (otherwise the landing pane)
  viewClears,           \* times the conversation view was cleared
  turnsDone,            \* responses handled so far
  offerAsked,           \* some handled response asked for a chart offer
  cancelled,            \* keys cancelled, with no offer started or shown since
  chartJob,             \* a chart type and a table given to the chart compatibility code
  extractJob,           \* a responseData given to the analytics data extractor
  sessionView,          \* the active conversation, the messages shown, the /history fetches
  tableJob,             \* the tables of the dashboards given to the table renderer
  dashJob,              \* a response rendered as a dashboard, block by block
  callJob               \* a call in progress: transcripts, their asks, the mute button

confVars == <<hookInstalled, chartJob, extractJob, sessionView, tableJob, dashJob,
             callJob>>
respVars == <<inflight, lastResp>>
modeVars == <<isTextOnlyMode, isVoiceToTextMode>>
msgVars == <<lastBot, dashEls, renderedAnalytics, tableSortState, nextMessageId,
             dashTurn, hrAnalyticsCache, trigPending>>
vizVars == <<vizSessions, chartInstances, currentChartId, chartEls, chartMeta,
             bubble, pendingOffers, selectTimers, cancelled>>
sessVars == <<historyPending, viewClears, chatVisible, hasActiveChat>>
ghostVars == <<turnsDone, offerAsked>>
legacyVars == <<legacyCharts, legacyEls>>
hookVars == <<chartTimers, simpleCharts>>
speechVars == <<speechTimers, spoken>>
callVars == <<isCallModeActive, continuousListening, isProcessingCall, isListening,
              callPc, sendTimers>>
reqVars == <<reqStage, reqTimer, reqIndicator, reqCaller>>
vars == <<hookInstalled, inflight, lastResp, isWaitingForResponse, isTextOnlyMode,
          isVoiceToTextMode, lastBot, dashEls, renderedAnalytics, tableSortState,
          nextMessageId, dashTurn, vizSessions, hrAnalyticsCache, chartInstances,
          currentChartId, chartEls, chartMeta, bubble, pendingOffers, selectTimers,
          legacyCharts, legacyEls, trigPending, chartTimers, simpleCharts,
          speechTimers, spoken, isCallModeActive, continuousListening,
          isProcessingCall, isListening, reqStage, reqTimer, reqIndicator,
          hasActiveChat, reqCaller, callPc, sendTimers, historyPending, viewClears, chatVisible,
          turnsDone, offerAsked, cancelled, chartJob, extractJob, sessionView,
          tableJob, dashJob, callJob>>

ReqIds == 1..MaxAsks
CallIds == 1..MaxCalls
SpeechTargets == {"landing", "chat"}
MsgIds == 1..(MaxTurns + MaxAsks + 2)

NoSession == [step |-> "none", chart_id |-> "none", has_options |-> FALSE]
NoBubble == [kind |-> "none", key |-> "none"]
Bubble(kind, key) == [kind |-> kind, key |-> key]

(***************************************************************************)
(* core-app.js addMessage("bot", text, shouldSave, responseData), as it is *)
(* reached through window.CoreApp.addMessage.                              *)
(***************************************************************************)
\* getHRAnalyticsData: the cached table of a key, or the built-in sample
getHRAnalyticsData(cache, k) == IF cache[k] # "missing" THEN cache[k] ELSE "sample"

\* the cache after the setAnalyticsData call of addMessage
CacheAfterAddMessage(rd) ==
  LET table == extractAnalyticsData(rd)
      entry == cacheHRAnalyticsData(table) IN
  IF isHRAnalyticsResponse(rd) /\ table # "missing" /\ rd.turn_id # NoTurn
       /\ entry # "missing"
  THEN [hrAnalyticsCache EXCEPT ![rd.turn_id] = entry]
  ELSE hrAnalyticsCache

\* EnhancedHRAnalyticsRenderer.render appends a table card
RendersTable(rd) == DataTruthy(rd.data) /\ HasRows(rd.data) /\ RowsNonEmpty(rd.data)

addMessage(text, responseData) ==
  LET rd == ForwardedData(hookInstalled, responseData)
      isHRData == isHRAnalyticsResponse(rd)
      messageId == nextMessageId IN
  /\ hrAnalyticsCache' = CacheAfterAddMessage(rd)
  /\ IF isHRData
     THEN /\ lastBot' = [kind |-> "dashboard", text |-> text, table |-> RendersTable(rd)]
          /\ dashEls' = dashEls \cup {messageId}
          /\ renderedAnalytics' = renderedAnalytics \cup {messageId}
          /\ tableSortState' = IF RendersTable(rd) THEN tableSortState \cup {messageId}
                               ELSE tableSortState
          /\ dashTurn' = [dashTurn EXCEPT ![messageId] = rd.turn_id]
          /\ nextMessageId' = nextMessageId + 1
     ELSE /\ lastBot' = [kind |-> "bubble", text |-> text, table |-> FALSE]
          /\ UNCHANGED <<dashEls, renderedAnalytics, tableSortState, dashTurn,
                         nextMessageId>>
  /\ trigPending' = IF hookInstalled
                    THEN [trigPending EXCEPT ![HasHRData(text)] = @ + 1]
                    ELSE trigPending

(***************************************************************************)
(* visualization-module.js renderVisualizationOffer, up to its await of    *)
(* the chart-types fetch; showError replaces the bubble.                   *)
(***************************************************************************)
MaxOffers == 2

renderVisualizationOffer(k, cache) ==
  /\ cancelled' = cancelled \ {k}
  /\ IF getHRAnalyticsData(cache, k) = "emptyRows"
     THEN /\ bubble' = Bubble("error", k)
          /\ UNCHANGED pendingOffers
     ELSE /\ pendingOffers' = [pendingOffers EXCEPT ![k] = @ + 1]
          /\ UNCHANGED bubble

\* legacy Chart.js support: a system bubble with a chart built from
\* data.visualization.chart.config
renderVisualizationInChat ==
  /\ legacyCharts' = legacyCharts + 1
  /\ legacyEls' = legacyEls + 1

scheduleAutoSpeech(responseText) ==
  /\ speechTimers' = IF responseText = "" THEN speechTimers ELSE speechTimers + 1
  /\ UNCHANGED spoken

(***************************************************************************)
(* backend-module.js handleBackendResponse (the second definition of the   *)
(* file, which is the one in effect).                                      *)
(***************************************************************************)
HandlerBranch_AnalyticsFirst(data) ==
  IF isAnalyticsResult(data) /\ DataTruthy(analyticsDataOf(data)) THEN "analytics"
  ELSE IF data.error THEN "error"
  ELSE IF data.authorized = "false" THEN "unauthorized"
  ELSE "text"

HandlerBranch(data) ==
  IF data.error THEN "error"
  ELSE IF data.authorized = "false" THEN "unauthorized"
  ELSE IF isAnalyticsResult(data) /\ DataTruthy(analyticsDataOf(data)) THEN "analytics"
  ELSE "text"

OfferRequested(data) ==
  /\ data.visualization_available = "true"
  /\ data.conversation_id
  /\ data.turn_id # NoTurn

handleBackendResponse(data) ==
  LET branch == HandlerBranch(data) IN
  /\ CASE branch = "error" ->
            /\ addMessage(Text("error", ""), NoData)
            /\ UNCHANGED <<bubble, pendingOffers, cancelled, legacyVars, speechVars>>
       [] branch = "unauthorized" ->
            /\ addMessage(Text("denied", data.answer), NoData)
            /\ UNCHANGED <<bubble, pendingOffers, cancelled, legacyVars, speechVars>>
       [] branch = "analytics" ->
            /\ addMessage(Text("answer", data.answer), WrapAnalytics(data))
            /\ IF OfferRequested(data)
               THEN renderVisualizationOffer(data.turn_id, hrAnalyticsCache')
               ELSE UNCHANGED <<bubble, pendingOffers, cancelled>>
            /\ IF data.visualization THEN renderVisualizationInChat
               ELSE UNCHANGED legacyVars
            /\ scheduleAutoSpeech(data.answer)
       [] branch = "text" ->
            /\ addMessage(Text("answer", data.answer), TextBranchData(data))
            /\ UNCHANGED <<bubble, pendingOffers, cancelled>>
            /\ IF data.visualization THEN renderVisualizationInChat
               ELSE UNCHANGED legacyVars
            /\ scheduleAutoSpeech(data.answer)
  /\ UNCHANGED <<vizSessions, chartInstances, currentChartId, chartEls, chartMeta,
                 selectTimers, hookVars>>

(***************************************************************************)
(* visualization-module.js: the chart-selection flow of one key.  The keys *)
(* of vizSessions are whatever the callers pass as turnId.                 *)
(***************************************************************************)
notViz == <<confVars, respVars, isWaitingForResponse, modeVars, msgVars, legacyVars,
            hookVars, speechVars, callVars, reqVars, sessVars, ghostVars>>

ChartsBudget ==
  LET pend == [k \in Keys |-> selectTimers[k]] IN
  currentChartId + pend["t1"] + pend["t2"] + pend["c1"] + pend["c2"] + pend["c3"]
    + pend["c4"]

\* the chart-types fetch of renderVisualizationOffer returns: with options the
\* session is stored and the options are rendered, otherwise showError
OfferFetchDone(k, ok) ==
  /\ pendingOffers[k] > 0
  /\ pendingOffers' = [pendingOffers EXCEPT ![k] = @ - 1]
  /\ IF ok
     THEN /\ vizSessions' = [vizSessions EXCEPT ![k] =
                 [step |-> "showing_options", chart_id |-> "none", has_options |-> TRUE]]
          /\ bubble' = Bubble("options", k)
          /\ cancelled' = cancelled \ {k}
     ELSE /\ bubble' = Bubble("error", k)
          /\ UNCHANGED <<vizSessions, cancelled>>
  /\ UNCHANGED <<chartInstances, currentChartId, chartEls, chartMeta, selectTimers>>
  /\ UNCHANGED notViz

\* click on a chart option of the options bubble: selectChart(turnId, chartType)
selectChart(k) ==
  /\ bubble = Bubble("options", k)
  /\ ChartsBudget < MaxCharts
  /\ IF vizSessions[k] = NoSession
     THEN UNCHANGED <<bubble, selectTimers>>
     ELSE /\ bubble' = Bubble("loading", "none")
          /\ selectTimers' = [selectTimers EXCEPT ![k] = @ + 1]
  /\ UNCHANGED <<vizSessions, chartInstances, currentChartId, chartEls, chartMeta,
                 pendingOffers, cancelled>>
  /\ UNCHANGED notViz

\* updateVizSession(turnId, {current_step, chart_id, chart_type})
updateVizSession(sessions, k, chartId) ==
  [sessions EXCEPT ![k] = [step |-> "chart_rendered", chart_id |-> chartId,
                           has_options |-> sessions[k].has_options]]

\* the selectChart timer fires: renderSelectedChart(conversationId, turnId, chartType);
\* created = createValidatedChart returned an instance
renderSelectedChart(k, created) ==
  LET chartId == ChartIdNames[currentChartId + 1] IN
  /\ selectTimers[k] > 0
  /\ selectTimers' = [selectTimers EXCEPT ![k] = @ - 1]
  /\ currentChartId' = currentChartId + 1
  /\ chartEls' = chartEls \cup {chartId}
  /\ IF created
     THEN /\ chartInstances' = chartInstances \cup {chartId}
          /\ chartMeta' = [chartMeta EXCEPT ![chartId] = k]
          /\ vizSessions' = updateVizSession(vizSessions, k, chartId)
          /\ bubble' = NoBubble
     ELSE /\ bubble' = Bubble("error", k)
          /\ UNCHANGED <<chartInstances, chartMeta, vizSessions>>
  /\ UNCHANGED <<pendingOffers, cancelled>>
  /\ UNCHANGED notViz

\* the turnId argument the Change Type button of chart container c passes
ChangeTypeArg(c) == c

\* changeChartType(conversationId, turnId)
changeChartType(k) ==
  LET session == vizSessions[k] IN
  IF session = NoSession \/ ~session.has_options
  THEN /\ bubble' = Bubble("error", k)
       /\ UNCHANGED <<vizSessions, chartInstances>>
  ELSE /\ chartInstances' = chartInstances \ {session.chart_id}
       /\ vizSessions' = [vizSessions EXCEPT ![k].step = "showing_options"]
       /\ bubble' = Bubble("options", k)

ClickChangeType(c) ==
  /\ c \in chartEls
  /\ changeChartType(ChangeTypeArg(c))
  /\ UNCHANGED <<currentChartId, chartEls, chartMeta, pendingOffers, selectTimers,
                 cancelled>>
  /\ UNCHANGED notViz

\* the Cancel button of the options bubble: cancelVisualization(turnId)
cancelVisualization(k) ==
  /\ bubble = Bubble("options", k)
  /\ bubble' = NoBubble
  /\ vizSessions' = [vizSessions EXCEPT ![k] = NoSession]
  /\ cancelled' = cancelled \cup {k}
  /\ UNCHANGED <<chartInstances, currentChartId, chartEls, chartMeta, pendingOffers,
                 selectTimers>>
  /\ UNCHANGED notViz

\* the Try Again button of the error bubble: renderVisualizationOffer(conv, turnId)
TryAgain(k) ==
  /\ bubble = Bubble("error", k)
  /\ pendingOffers[k] < MaxOffers
  /\ renderVisualizationOffer(k, hrAnalyticsCache)
  /\ UNCHANGED <<vizSessions, chartInstances, currentChartId, chartEls, chartMeta,
                 selectTimers>>
  /\ UNCHANGED notViz

VizNext ==
  \/ \E k \in Keys, ok \in BOOLEAN : OfferFetchDone(k, ok)
  \/ \E k \in Keys : selectChart(k)
  \/ \E k \in Keys, created \in BOOLEAN : renderSelectedChart(k, created)
  \/ \E c \in ChartIds : ClickChangeType(c)
  \/ \E k \in Keys : cancelVisualization(k)
  \/ \E k \in Keys : TryAgain(k)

(***************************************************************************)
(* Timers of simple_visualization_fixed.js and of scheduleAutoSpeech.      *)
(***************************************************************************)
\* the 500 ms timer of the hook: triggerVisualizationFromResponse(text)
triggerVisualizationFromResponse(hasData) ==
  /\ trigPending[hasData] > 0
  /\ trigPending' = [trigPending EXCEPT ![hasData] = @ - 1]
  /\ chartTimers' = IF hasData THEN chartTimers + 1 ELSE chartTimers
  /\ UNCHANGED <<simpleCharts, lastBot, dashEls, renderedAnalytics, tableSortState,
                 nextMessageId, dashTurn, hrAnalyticsCache>>
  /\ UNCHANGED <<confVars, respVars, isWaitingForResponse, modeVars, vizVars,
                 legacyVars, speechVars, callVars, reqVars, sessVars, ghostVars>>

\* the 1000 ms timer: createSimpleChart(extractedData)
createSimpleChart ==
  /\ chartTimers > 0
  /\ chartTimers' = chartTimers - 1
  /\ simpleCharts' = simpleCharts + 1
  /\ UNCHANGED <<confVars, respVars, isWaitingForResponse, modeVars, msgVars, vizVars,
                 legacyVars, speechVars, callVars, reqVars, sessVars, ghostVars>>

\* the timer of scheduleAutoSpeech
AutoSpeech ==
  /\ speechTimers > 0
  /\ speechTimers' = speechTimers - 1
  /\ IF isCallModeActive THEN spoken' = TRUE /\ UNCHANGED isVoiceToTextMode
     ELSE IF isTextOnlyMode THEN UNCHANGED <<spoken, isVoiceToTextMode>>
     ELSE IF isVoiceToTextMode THEN isVoiceToTextMode' = FALSE /\ UNCHANGED spoken
     ELSE spoken' = TRUE /\ UNCHANGED isVoiceToTextMode
  /\ UNCHANGED <<confVars, respVars, isWaitingForResponse, isTextOnlyMode, msgVars,
                 vizVars, legacyVars, hookVars, callVars, reqVars, sessVars, ghostVars>>

(***************************************************************************)
(* Initial state: the page as loaded.  Whether the hook script found       *)
(* window.CoreApp when it ran depends on the script order of the page.     *)
(***************************************************************************)
InitUI ==
  /\ hookInstalled \in BOOLEAN
  /\ lastResp = NoResp
  /\ isWaitingForResponse = FALSE
  /\ isTextOnlyMode = FALSE
  /\ isVoiceToTextMode = FALSE
  /\ lastBot = [kind |-> "none", text |-> NoText, table |-> FALSE]
  /\ dashEls = {}
  /\ renderedAnalytics = {}
  /\ tableSortState = {}
  /\ nextMessageId = 1
  /\ dashTurn = [m \in MsgIds |-> NoTurn]
  /\ vizSessions = [k \in Keys |-> NoSession]
  /\ hrAnalyticsCache = [k \in Keys |-> "missing"]
  /\ chartInstances = {}
  /\ currentChartId = 0
  /\ chartEls = {}
  /\ chartMeta = [c \in ChartIds |-> "none"]
  /\ bubble = NoBubble
  /\ pendingOffers = [k \in Keys |-> 0]
  /\ selectTimers = [k \in Keys |-> 0]
  /\ legacyCharts = 0
  /\ legacyEls = 0
  /\ trigPending = [b \in BOOLEAN |-> 0]
  /\ chartTimers = 0
  /\ simpleCharts = 0
  /\ speechTimers = 0
  /\ spoken = FALSE
  /\ isCallModeActive = FALSE
  /\ continuousListening = FALSE
  /\ isProcessingCall = FALSE
  /\ isListening = FALSE
  /\ reqStage = [r \in ReqIds |-> "unused"]
  /\ reqTimer = [r \in ReqIds |-> FALSE]
  /\ reqIndicator = [r \in ReqIds |-> FALSE]
  /\ reqCaller = [r \in ReqIds |-> 0]
  /\ callPc = [c \in CallIds |-> "none"]
  /\ sendTimers = [t \in SpeechTargets |-> FALSE]
  /\ historyPending = 0
  /\ viewClears = 0
  /\ turnsDone = 0
  /\ offerAsked = FALSE
  /\ cancelled = {}

(***************************************************************************)
(* SpecResp: one backend response, of any shape, is handled and the UI     *)
(* events it makes possible follow.                                        *)
(***************************************************************************)
\* a chat is open: the question was sent from it
ChatOpen ==
  /\ chatVisible = TRUE
  /\ hasActiveChat = TRUE

\* no call of the chart compatibility code or of the extractor is followed
NoJobs ==
  /\ chartJob = NoJob
  /\ extractJob = NoJob
  /\ sessionView = NoJob
  /\ tableJob = NoJob
  /\ dashJob = NoJob
  /\ callJob = NoJob

InitResp ==
  /\ InitUI
  /\ NoJobs
  /\ ChatOpen
  /\ inflight \in Responses

DeliverResponse ==
  /\ inflight # NoResp
  /\ handleBackendResponse(inflight)
  /\ inflight' = NoResp
  /\ lastResp' = inflight
  /\ UNCHANGED <<confVars, isWaitingForResponse, modeVars, callVars, reqVars,
                 sessVars, ghostVars>>

NextResp ==
  \/ DeliverResponse
  \/ AutoSpeech

SpecResp == InitResp /\ [][NextResp]_vars

(***************************************************************************)
(* SpecViz: a conversation.  Answers arrive, the user works the chart      *)
(* offer, the timers of the hook fire, and the view is cleared by a new    *)
(* chat, a session switch or the deletion of the active session.           *)
(***************************************************************************)
InitViz ==
  /\ InitUI
  /\ NoJobs
  /\ ChatOpen
  /\ inflight = NoResp

\* askBackend hands the parsed body to handleBackendResponse
ReceiveResponse(data) ==
  /\ turnsDone < MaxTurns
  /\ handleBackendResponse(data)
  /\ turnsDone' = turnsDone + 1
  /\ offerAsked' = (offerAsked \/ OfferRequested(data))
  /\ UNCHANGED <<confVars, respVars, isWaitingForResponse, modeVars, callVars, reqVars,
                 sessVars>>

\* messages.innerHTML = "": every element of the conversation leaves the document
ClearView ==
  /\ lastBot' = [kind |-> "none", text |-> NoText, table |-> FALSE]
  /\ dashEls' = {}
  /\ chartEls' = {}
  /\ bubble' = NoBubble
  /\ legacyEls' = 0
  /\ simpleCharts' = 0
  /\ viewClears' = viewClears + 1

\* core-app.js newChat
newChat ==
  /\ viewClears < MaxClears
  /\ ClearView
  /\ chatVisible' = TRUE
  /\ hasActiveChat' = TRUE
  /\ UNCHANGED <<renderedAnalytics, tableSortState, nextMessageId, dashTurn,
                 hrAnalyticsCache, trigPending, vizSessions, chartInstances,
                 currentChartId, chartMeta, pendingOffers, selectTimers, cancelled,
                 legacyCharts, chartTimers, historyPending>>
  /\ UNCHANGED <<confVars, respVars, isWaitingForResponse, modeVars, speechVars,
                 callVars, reqVars, ghostVars>>

\* deleteSession, after the DELETE request answered ok for the active session
deleteSession ==
  /\ hasActiveChat
  /\ viewClears < MaxClears
  /\ ClearView
  /\ chatVisible' = FALSE
  /\ hasActiveChat' = FALSE
  /\ UNCHANGED <<renderedAnalytics, tableSortState, nextMessageId, dashTurn,
                 hrAnalyticsCache, trigPending, vizSessions, chartInstances,
                 currentChartId, chartMeta, pendingOffers, selectTimers, cancelled,
                 legacyCharts, chartTimers, historyPending>>
  /\ UNCHANGED <<confVars, respVars, isWaitingForResponse, modeVars, speechVars,
                 callVars, reqVars, ghostVars>>

\* loadSession, up to its await of the /history fetch
loadSession ==
  /\ ~isWaitingForResponse
  /\ viewClears < MaxClears
  /\ ClearView
  /\ chatVisible' = TRUE
  /\ hasActiveChat' = TRUE
  /\ historyPending' = historyPending + 1
  /\ UNCHANGED <<renderedAnalytics, tableSortState, nextMessageId, dashTurn,
                 hrAnalyticsCache, trigPending, vizSessions, chartInstances,
                 currentChartId, chartMeta, pendingOffers, selectTimers, cancelled,
                 legacyCharts, chartTimers>>
  /\ UNCHANGED <<confVars, respVars, isWaitingForResponse, modeVars, speechVars,
                 callVars, reqVars, ghostVars>>

\* loadSession, after the fetch: the stored messages are appended with
\* addMessage(role, message, false); a failure appends an error message.
\* last = the text of the last bot message of the history ("" = none)
HistoryTexts == {"", PlainAnswer, NumbersAnswer}

loadSessionHistory(ok, last) ==
  /\ historyPending > 0
  /\ historyPending' = historyPending - 1
  /\ IF ok /\ last = ""
     THEN UNCHANGED msgVars
     ELSE addMessage(IF ok THEN Text("answer", last) ELSE Text("loadfail", ""), NoData)
  /\ UNCHANGED <<vizVars, legacyVars, hookVars, viewClears, chatVisible, hasActiveChat>>
  /\ UNCHANGED <<confVars, respVars, isWaitingForResponse, modeVars, speechVars,
                 callVars, reqVars, ghostVars>>

HookNext ==
  \/ \E b \in BOOLEAN : triggerVisualizationFromResponse(b)
  \/ createSimpleChart

ViewNext ==
  \/ newChat
  \/ deleteSession
  \/ loadSession
  \/ \E ok \in BOOLEAN, last \in HistoryTexts : loadSessionHistory(ok, last)

NextViz ==
  \/ \E data \in VizResponses : ReceiveResponse(data)
  \/ VizNext
  \/ HookNext
  \/ ViewNext

SpecViz == InitViz /\ [][NextViz]_vars

(***************************************************************************)
(* SpecAsk: questions and their /ask requests.  The user sends from the    *)
(* chat or the landing pane, by keyboard or by speech, starts and ends     *)
(* call mode and speaks in it; the server answers, fails or stays silent.  *)
(***************************************************************************)
AskResponses ==
  [ error : BOOLEAN, authorized : {"absent"}, message_type : {"other"},
    data : {"missing"}, narrative : {FALSE}, analysis : {FALSE}, legacy : {FALSE},
    visualization_available : {"absent"}, conversation_id : {FALSE},
    turn_id : {NoTurn}, visualization : {FALSE}, answer : {PlainAnswer} ]

HttpStatuses == {200, 429, 500}

InitAsk ==
  /\ InitUI
  /\ NoJobs
  /\ ~hookInstalled
  /\ inflight = NoResp
  /\ chatVisible = FALSE
  /\ hasActiveChat = FALSE

Outstanding(r) == reqStage[r] \in {"fetch", "body"}
FreeReq == {r \in ReqIds : reqStage[r] = "unused"}
NextReq == CHOOSE r \in FreeReq : \A q \in FreeReq : r <= q

\* askBackend(text), up to its await of fetch.  waiting is isWaitingForResponse
\* at the call; caller is the handleCallModeInput invocation awaiting it (0 = none)
askBackend(waiting, caller) ==
  IF waiting /\ ~isCallModeActive
  THEN UNCHANGED reqVars
  ELSE /\ FreeReq # {}
       /\ reqStage' = [reqStage EXCEPT ![NextReq] = "fetch"]
       /\ reqTimer' = [reqTimer EXCEPT ![NextReq] = TRUE]
       /\ reqIndicator' = [reqIndicator EXCEPT ![NextReq] = ~isCallModeActive]
       /\ reqCaller' = [reqCaller EXCEPT ![NextReq] = caller]

\* the message of the catch block
CatchMessage_Generic(errName) == Text("connect", "")
CatchMessage(errName) ==
  IF errName = "AbortError" THEN Text("timeout", "") ELSE Text("connect", "")

\* the finally block: setInputState(false); loadSessions is then awaited, which
\* only a handleCallModeInput awaiting askBackend can tell from its return.
\* A timer left armed by the catch block aborts a settled fetch: nothing
Finally(r) ==
  /\ reqStage' = [reqStage EXCEPT ![r] = IF reqCaller[r] = 0 THEN "done" ELSE "sessions"]
  /\ reqIndicator' = [reqIndicator EXCEPT ![r] = FALSE]
  /\ reqTimer' = [reqTimer EXCEPT ![r] = FALSE]
  /\ isWaitingForResponse' = FALSE
  /\ UNCHANGED reqCaller

\* the catch block, then finally.  In call mode the block also has the message
\* read aloud 500 ms later, which touches the audio output only
Catch(r, errName) ==
  /\ addMessage(CatchMessage(errName), NoData)
  /\ Finally(r)
  /\ UNCHANGED speechVars
  /\ UNCHANGED <<confVars, respVars, modeVars, vizVars, legacyVars, hookVars, callVars,
                 sessVars, ghostVars>>

\* what a question sent from a pane leaves alone
mapsFrame == <<renderedAnalytics, tableSortState, nextMessageId, dashTurn,
               hrAnalyticsCache, trigPending, vizSessions, chartInstances,
               currentChartId, chartMeta, pendingOffers, selectTimers, cancelled,
               legacyCharts, chartTimers>>
viewVars == <<lastBot, dashEls, chartEls, bubble, legacyEls, simpleCharts, viewClears,
              chatVisible, hasActiveChat>>
callState == <<isCallModeActive, continuousListening, isProcessingCall, isListening,
               callPc>>

\* core-app.js sendMessage(), the chat input holding a text
sendMessageCall ==
  IF isWaitingForResponse
  THEN UNCHANGED <<isWaitingForResponse, modeVars, reqVars>>
  ELSE /\ isTextOnlyMode' = TRUE
       /\ isVoiceToTextMode' = FALSE
       /\ askBackend(isWaitingForResponse, 0)
       /\ isWaitingForResponse' = TRUE

\* core-app.js startFromLanding(), the landing input holding a text:
\* setInputState(true); newChat(); askBackend(text); setInputState(false)
startFromLandingCall ==
  IF isWaitingForResponse
  THEN UNCHANGED <<isWaitingForResponse, modeVars, reqVars, viewVars>>
  ELSE /\ isTextOnlyMode' = TRUE
       /\ isVoiceToTextMode' = FALSE
       /\ ClearView
       /\ chatVisible' = TRUE
       /\ hasActiveChat' = TRUE
       /\ askBackend(TRUE, 0)
       /\ isWaitingForResponse' = FALSE

\* the Send button or Enter in the chat input
sendMessage ==
  /\ chatVisible
  /\ ~isWaitingForResponse
  /\ sendMessageCall
  /\ UNCHANGED <<confVars, respVars, mapsFrame, viewVars, speechVars, callVars,
                 historyPending, ghostVars>>

\* Enter in the landing input
startFromLanding ==
  /\ ~chatVisible
  /\ ~isWaitingForResponse
  /\ startFromLandingCall
  /\ UNCHANGED <<confVars, respVars, mapsFrame, speechVars, callVars, historyPending,
                 ghostVars>>

\* speech-module.js onresult with a final transcript outside call mode: the
\* transcript goes to the input of the pane and a 500 ms timer will send it.
\* Recognition ends with its final result, so the timer of one input has fired
\* before the user has dictated into it again
SpeechResult(t) ==
  /\ ~isCallModeActive
  /\ (t = "landing") = ~chatVisible
  /\ ~sendTimers[t]
  /\ isVoiceToTextMode' = TRUE
  /\ isTextOnlyMode' = FALSE
  /\ sendTimers' = [sendTimers EXCEPT ![t] = TRUE]
  /\ UNCHANGED <<confVars, respVars, isWaitingForResponse, mapsFrame, viewVars,
                 speechVars, callState, reqVars, historyPending, ghostVars>>

\* the 500 ms timer of onresult
SpeechSendTimer(t) ==
  /\ sendTimers[t]
  /\ sendTimers' = [sendTimers EXCEPT ![t] = FALSE]
  /\ IF t = "landing"
     THEN startFromLandingCall
     ELSE sendMessageCall /\ UNCHANGED viewVars
  /\ UNCHANGED <<confVars, respVars, mapsFrame, speechVars, callState, historyPending,
                 ghostVars>>

(***************************************************************************)
(* call-mode-module.js                                                     *)
(***************************************************************************)
endCallModeCall ==
  /\ isCallModeActive' = FALSE
  /\ continuousListening' = FALSE
  /\ isProcessingCall' = FALSE
  /\ isListening' = FALSE
  /\ UNCHANGED <<modeVars, viewVars>>

\* the phone button or Ctrl+/, the microphone being granted
startCallMode ==
  /\ IF isCallModeActive
     THEN endCallModeCall
     ELSE /\ isCallModeActive' = TRUE
          /\ continuousListening' = TRUE
          /\ isProcessingCall' = FALSE
          /\ isTextOnlyMode' = FALSE
          /\ isVoiceToTextMode' = FALSE
          /\ IF ~chatVisible /\ ~hasActiveChat
             THEN ClearView /\ chatVisible' = TRUE /\ hasActiveChat' = TRUE
             ELSE /\ chatVisible' = TRUE
                  /\ UNCHANGED <<lastBot, dashEls, chartEls, bubble, legacyEls,
                                 simpleCharts, viewClears, hasActiveChat>>
          /\ isListening' = TRUE
  /\ UNCHANGED <<callPc, sendTimers>>
  /\ UNCHANGED <<confVars, respVars, isWaitingForResponse, mapsFrame, speechVars,
                 reqVars, historyPending, ghostVars>>

\* the End Call button
endCallMode ==
  /\ isCallModeActive
  /\ endCallModeCall
  /\ UNCHANGED <<callPc, sendTimers>>
  /\ UNCHANGED <<confVars, respVars, isWaitingForResponse, mapsFrame, speechVars,
                 reqVars, historyPending, ghostVars>>

\* onresult with a final transcript in call mode: handleCallModeInput(transcript),
\* up to its 300 ms wait
handleCallModeInput(c) ==
  /\ isCallModeActive /\ isListening
  /\ ~isProcessingCall
  /\ callPc[c] = "none"
  /\ isProcessingCall' = TRUE
  /\ isListening' = FALSE
  /\ callPc' = [callPc EXCEPT ![c] = "wait300"]
  /\ UNCHANGED <<isCallModeActive, continuousListening, sendTimers>>
  /\ UNCHANGED <<confVars, respVars, isWaitingForResponse, modeVars, mapsFrame,
                 viewVars, speechVars, reqVars, historyPending, ghostVars>>

\* handleCallModeInput after the wait: addMessage("user"), await askBackend
CallAsk(c) ==
  /\ callPc[c] = "wait300"
  /\ askBackend(isWaitingForResponse, c)
  /\ IF isWaitingForResponse /\ ~isCallModeActive
     THEN /\ callPc' = [callPc EXCEPT ![c] = "timer2000"]
          /\ UNCHANGED isWaitingForResponse
     ELSE /\ callPc' = [callPc EXCEPT ![c] = "asking"]
          /\ isWaitingForResponse' = TRUE
  /\ UNCHANGED <<isCallModeActive, continuousListening, isProcessingCall, isListening,
                 sendTimers>>
  /\ UNCHANGED <<confVars, respVars, modeVars, mapsFrame, viewVars, speechVars,
                 historyPending, ghostVars>>

\* the 2000 ms timer set after askBackend returned
CallTimer(c) ==
  /\ callPc[c] = "timer2000"
  /\ callPc' = [callPc EXCEPT ![c] = "none"]
  /\ IF isCallModeActive /\ continuousListening
     THEN isProcessingCall' = FALSE /\ isListening' = TRUE
     ELSE UNCHANGED <<isProcessingCall, isListening>>
  /\ UNCHANGED <<isCallModeActive, continuousListening, sendTimers>>
  /\ UNCHANGED <<confVars, respVars, isWaitingForResponse, modeVars, mapsFrame,
                 viewVars, speechVars, reqVars, historyPending, ghostVars>>

(***************************************************************************)
(* backend-module.js askBackend after its await of fetch                   *)
(***************************************************************************)
\* fetch resolves with the response headers: clearTimeout(timeoutId), the
\* processing message is removed, then the status decides
HeadersArrive(r, status) ==
  /\ reqStage[r] = "fetch"
  /\ CASE status = 429 ->
            /\ addMessage(Text("rate", ""), NoData)
            /\ Finally(r)
            /\ UNCHANGED <<speechVars, confVars, respVars, modeVars, vizVars, legacyVars,
                           hookVars, callVars, sessVars, ghostVars>>
       [] status = 200 ->
            /\ reqStage' = [reqStage EXCEPT ![r] = "body"]
            /\ reqTimer' = [reqTimer EXCEPT ![r] = FALSE]
            /\ reqIndicator' = [reqIndicator EXCEPT ![r] = FALSE]
            /\ UNCHANGED <<reqCaller, isWaitingForResponse, msgVars,
                           speechVars, confVars, respVars, modeVars, vizVars, legacyVars,
                           hookVars, callVars, sessVars, ghostVars>>
       [] OTHER -> Catch(r, "Error")

\* fetch rejects: the network failed
NetworkFailure(r) ==
  /\ reqStage[r] = "fetch"
  /\ Catch(r, "TypeError")

\* the 45 s timer fires: controller.abort()
abortTimer(r) ==
  /\ reqTimer[r]
  /\ reqStage[r] = "fetch"
  /\ Catch(r, "AbortError")

\* res.json() resolves: handleBackendResponse(data), then finally
BodyArrives(r, data) ==
  /\ reqStage[r] = "body"
  /\ handleBackendResponse(data)
  /\ Finally(r)
  /\ UNCHANGED <<confVars, respVars, modeVars, callVars, sessVars, ghostVars>>

\* res.json() rejects: the body is cut or is no JSON
BodyFails(r) ==
  /\ reqStage[r] = "body"
  /\ Catch(r, "TypeError")

\* SessionModule.loadSessions() of the finally block returns: askBackend is over
SessionsLoaded(r) ==
  /\ reqStage[r] = "sessions"
  /\ reqStage' = [reqStage EXCEPT ![r] = "done"]
  /\ callPc' = IF reqCaller[r] \in CallIds /\ callPc[reqCaller[r]] = "asking"
               THEN [callPc EXCEPT ![reqCaller[r]] = "timer2000"]
               ELSE callPc
  /\ UNCHANGED <<reqTimer, reqIndicator, reqCaller, isWaitingForResponse>>
  /\ UNCHANGED <<isCallModeActive, continuousListening, isProcessingCall, isListening,
                 sendTimers>>
  /\ UNCHANGED <<confVars, respVars, modeVars, mapsFrame, viewVars, speechVars,
                 historyPending, ghostVars>>

UserNext ==
  \/ sendMessage
  \/ startFromLanding
  \/ \E t \in SpeechTargets : SpeechResult(t)
  \/ startCallMode
  \/ endCallMode
  \/ \E c \in CallIds : handleCallModeInput(c)

ClientNext ==
  \/ \E t \in SpeechTargets : SpeechSendTimer(t)
  \/ \E c \in CallIds : CallAsk(c)
  \/ \E c \in CallIds : CallTimer(c)
  \/ \E r \in ReqIds : abortTimer(r)
  \/ \E r \in ReqIds : SessionsLoaded(r)

ServerNext ==
  \/ \E r \in ReqIds, status \in HttpStatuses : HeadersArrive(r, status)
  \/ \E r \in ReqIds : NetworkFailure(r)
  \/ \E r \in ReqIds, data \in AskResponses : BodyArrives(r, data)
  \/ \E r \in ReqIds : BodyFails(r)

NextAsk == UserNext \/ ClientNext \/ ServerNext

SpecAsk == InitAsk /\ [][NextAsk]_vars

(***************************************************************************)
(* The chart compatibility code (window.ChartCompatibility).  A table is   *)
(* given by what the code reads of it: the number of rows and the keys of  *)
(* the first row; uniform (every row has the keys of the first), numeric   *)
(* (the x and y of the rows are numbers) and labels (the longest category  *)
(* label) describe the rest of it.                                         *)
(***************************************************************************)
MaxCategories == 41

ChartTypes ==
  {"bar", "horizontal_bar", "horizontalBar", "pie", "doughnut", "line", "polar_area",
   "polarArea", "bubble", "scatter", "radar", "table"}

RowKeys == {<<"band", "employee_count">>, <<"x", "y">>, <<"x", "y", "r">>, <<"band">>}
LabelLengths == {"short", "long", "verylong"}

ChartTables ==
  [ rows : 0..MaxCategories, keys : RowKeys, uniform : BOOLEAN, numeric : BOOLEAN,
    labels : LabelLengths ]

Includes(seq, x) == \E i \in 1..Len(seq) : seq[i] = x

\* CHART_TYPE_MAPPING[backendType] ("undefined" = no such key)
CHART_TYPE_MAPPING(backendType) ==
  CASE backendType = "bar" -> "bar"
    [] backendType = "horizontal_bar" -> "bar"
    [] backendType = "pie" -> "pie"
    [] backendType = "doughnut" -> "doughnut"
    [] backendType = "line" -> "line"
    [] backendType = "polar_area" -> "polarArea"
    [] backendType = "bubble" -> "bubble"
    [] backendType = "scatter" -> "scatter"
    [] backendType = "radar" -> "radar"
    [] OTHER -> "undefined"

normalizeChartType(backendType) ==
  IF CHART_TYPE_MAPPING(backendType) = "undefined" THEN "bar"
  ELSE CHART_TYPE_MAPPING(backendType)

\* HR_CHART_REQUIREMENTS, in the order of its entries
HR_CHART_REQUIREMENTS ==
  << [category |-> "categorical",
      types |-> <<"bar", "horizontal_bar", "pie", "doughnut", "polarArea", "radar">>],
     [category |-> "sequential", types |-> <<"line">>],
     [category |-> "coordinate", types |-> <<"bubble", "scatter">>] >>

\* a reason text: its wording, and the category count and chart type it quotes
NoCount == -1
NoKey == "undefined"
Reason(kind, count, type) == [kind |-> kind, count |-> count, type |-> type]
NoReason == Reason("none", NoCount, "none")

\* undefined > n is false
Exceeds(count, n) == count # NoCount /\ count > n

detectHRDataShape(analyticsData) ==
  LET keys == analyticsData.keys
      hasXY == Includes(keys, "x") /\ Includes(keys, "y") IN
  IF analyticsData.rows = 0
  THEN [type |-> "empty", valid |-> FALSE, reason |-> Reason("no_rows", NoCount, "none"),
        categoryKey |-> NoKey, valueKey |-> NoKey, categories |-> NoCount]
  ELSE IF hasXY
  THEN [type |-> "coordinates", valid |-> TRUE, reason |-> NoReason,
        categoryKey |-> NoKey, valueKey |-> NoKey, categories |-> NoCount]
  ELSE IF Len(keys) >= 2
  THEN [type |-> "hr_category_value", valid |-> TRUE, reason |-> NoReason,
        categoryKey |-> keys[1], valueKey |-> keys[2],
        categories |-> analyticsData.rows]
  ELSE [type |-> "unknown", valid |-> FALSE,
        reason |-> Reason("not_recognized", NoCount, "none"),
        categoryKey |-> NoKey, valueKey |-> NoKey, categories |-> NoCount]

\* the first entry of HR_CHART_REQUIREMENTS listing the type as passed or as
\* normalized ("null" = none)
ChartCategoryOf(chartType, normalizedType) ==
  LET hits == {i \in 1..Len(HR_CHART_REQUIREMENTS) :
                 \/ Includes(HR_CHART_REQUIREMENTS[i].types, chartType)
                 \/ Includes(HR_CHART_REQUIREMENTS[i].types, normalizedType)} IN
  IF hits = {} THEN "null"
  ELSE HR_CHART_REQUIREMENTS[CHOOSE i \in hits : \A j \in hits : i <= j].category

PieCeiling == 12
BarCeiling == 25

checkHRCompatibility(chartCategory, dataShape, chartType) ==
  LET categoryCount == dataShape.categories IN
  CASE chartCategory = "categorical" ->
         IF chartType \in {"pie", "doughnut"} /\ Exceeds(categoryCount, PieCeiling)
         THEN [isCompatible |-> FALSE,
               reason |-> Reason("too_many_for_readability", categoryCount, chartType)]
         ELSE IF chartType = "bar" /\ Exceeds(categoryCount, BarCeiling)
         THEN [isCompatible |-> FALSE,
               reason |-> Reason("too_many_for_vertical_bar", categoryCount, "bar")]
         ELSE [isCompatible |-> TRUE, reason |-> NoReason]
    [] chartCategory = "coordinate" ->
         IF dataShape.type = "hr_category_value"
         THEN [isCompatible |-> FALSE,
               reason |-> Reason("requires_coordinates", NoCount, chartType)]
         ELSE [isCompatible |-> TRUE, reason |-> NoReason]
    [] OTHER -> [isCompatible |-> TRUE, reason |-> NoReason]

validateHRChartCompatibility(chartType, analyticsData) ==
  LET normalizedType == normalizeChartType(chartType)
      dataShape == detectHRDataShape(analyticsData)
      chartCategory == ChartCategoryOf(chartType, normalizedType)
      compatible == checkHRCompatibility(chartCategory, dataShape, chartType) IN
  IF ~dataShape.valid
  THEN [compatible |-> FALSE, reason |-> dataShape.reason, dataShape |-> dataShape]
  ELSE IF chartCategory = "null"
  THEN [compatible |-> FALSE, reason |-> Reason("unknown_type", NoCount, normalizedType),
        dataShape |-> dataShape]
  ELSE IF ~compatible.isCompatible
  THEN [compatible |-> FALSE, reason |-> compatible.reason, dataShape |-> dataShape]
  ELSE [compatible |-> TRUE, reason |-> NoReason, dataShape |-> dataShape]

\* the outcome of a build: an Error thrown with a message, or a Chart.js config
NoConfig == [type |-> "none", indexAxis |-> "none", label |-> NoKey, title |-> NoKey]
Thrown_NoReason(prefix, reason) ==
  [threw |-> TRUE, prefix |-> prefix, reason |-> NoReason, config |-> NoConfig]
Thrown(prefix, reason) ==
  [threw |-> TRUE, prefix |-> prefix, reason |-> reason, config |-> NoConfig]
Built(config) == [threw |-> FALSE, prefix |-> "", reason |-> NoReason, config |-> config]

transformHRAnalyticsData(chartType, analyticsData) ==
  LET normalizedType == normalizeChartType(chartType)
      compatibility == validateHRChartCompatibility(chartType, analyticsData)
      dataShape == compatibility.dataShape
      isHorizontal == chartType = "horizontal_bar" IN
  IF ~compatibility.compatible
  THEN Thrown("HR Chart incompatible: ", compatibility.reason)
  ELSE IF dataShape.type = "hr_category_value"
  THEN Built([type |-> IF isHorizontal THEN "bar" ELSE normalizedType,
              indexAxis |-> IF isHorizontal THEN "y" ELSE "x",
              label |-> dataShape.valueKey, title |-> dataShape.categoryKey])
  ELSE IF dataShape.type = "coordinates"
  THEN Built([type |-> normalizedType, indexAxis |-> "none",
              label |-> "HR Data Points", title |-> "HR Chart"])
  ELSE Thrown("Unsupported HR data shape: ", Reason(dataShape.type, NoCount, "none"))

(***************************************************************************)
(* visualization-module.js: the classification of the chart options of an  *)
(* offer.  The options are the chart_type values /api/viz/chart-types      *)
(* returned.                                                               *)
(***************************************************************************)
BackendChartTypes ==
  {"bar", "horizontal_bar", "pie", "doughnut", "line", "polar_area", "bubble",
   "scatter", "radar", "table"}

OptionLists ==
  {BackendChartTypes, BackendChartTypes \ {"table"}, {"pie", "line", "bubble"}}

OfferPieCeiling == 15
OfferBarCeiling == 30
HighCardinality == 25
VeryHighCardinality == 35
FewCategories == 8

isHRCompatible_Capped(chartType, hrData) ==
  LET categoryCount == hrData.rows IN
  CASE chartType \in {"pie", "doughnut"} -> categoryCount <= OfferPieCeiling
    [] chartType \in {"bar", "horizontal_bar"} -> categoryCount <= OfferBarCeiling
    [] chartType \in {"bubble", "scatter"} -> FALSE
    [] chartType = "line" -> FALSE
    [] OTHER -> TRUE

isHRCompatible(chartType, hrData) ==
  LET categoryCount == hrData.rows IN
  CASE chartType \in {"pie", "doughnut"} -> categoryCount <= OfferPieCeiling
    [] chartType = "bar" -> categoryCount <= OfferBarCeiling
    [] chartType = "horizontal_bar" -> TRUE
    [] chartType \in {"bubble", "scatter"} -> FALSE
    [] chartType = "line" -> FALSE
    [] OTHER -> TRUE

\* recommendedType of getHRChartRecommendations
RecommendedType(hrData) ==
  LET categoryCount == hrData.rows
      hasLongLabels == hrData.labels \in {"long", "verylong"}
      hasVeryLongLabels == hrData.labels = "verylong" IN
  IF categoryCount > VeryHighCardinality THEN "table"
  ELSE IF categoryCount > HighCardinality \/ hasVeryLongLabels THEN "horizontal_bar"
  ELSE IF categoryCount <= FewCategories /\ ~hasLongLabels THEN "pie"
  ELSE "horizontal_bar"

NoOffer == [recommended |-> {}, alternatives |-> {}, notSuitable |-> {}]

getHRChartRecommendations(hrData, allChartOptions) ==
  LET recommendedType == RecommendedType(hrData)
      recommendedCharts == {t \in allChartOptions : t = recommendedType}
      alternativeCharts ==
        {t \in allChartOptions : t # recommendedType /\ isHRCompatible(t, hrData)}
      notSuitableCharts ==
        {t \in allChartOptions : t # recommendedType /\ ~isHRCompatible(t, hrData)}
      availableCharts == allChartOptions \cap {"table", "horizontal_bar", "bar"} IN
  IF recommendedCharts = {} /\ alternativeCharts = {}
  THEN [recommended |-> availableCharts \cap {"table"},
        alternatives |-> availableCharts \ {"table"},
        notSuitable |-> notSuitableCharts]
  ELSE [recommended |-> recommendedCharts, alternatives |-> alternativeCharts,
        notSuitable |-> notSuitableCharts]

\* renderChartOption: the options that carry an onclick
Selectable(recommendations) == recommendations.recommended \cup recommendations.alternatives

(***************************************************************************)
(* SpecChart: a chart type and a table go through validation and build,    *)
(* the table goes through the classification of an offer, and the user     *)
(* selects one of the options shown.                                       *)
(***************************************************************************)
\* the tables of the jobs: numeric and uniform vary where rows carry x and y
\* (a single row is uniform), the label length where they carry a category
JobTables ==
  {t \in ChartTables :
     /\ (~Includes(t.keys, "x")) => (t.uniform /\ t.numeric)
     /\ t.rows <= 1 => t.uniform
     /\ (t.keys # <<"band", "employee_count">>) => t.labels = "short"}

NoValidation == [compatible |-> FALSE, reason |-> NoReason, dataShape |-> NoKey]
NoBuild == [threw |-> FALSE, prefix |-> "none", reason |-> NoReason, config |-> NoConfig]
NoRender == [type |-> "none", instance |-> NoConfig, reason |-> NoReason]

InitChart ==
  /\ InitUI
  /\ callJob = NoJob
  /\ dashJob = NoJob
  /\ tableJob = NoJob
  /\ sessionView = NoJob
  /\ ~hookInstalled
  /\ ChatOpen
  /\ inflight = NoResp
  /\ extractJob = NoJob
  /\ \E type \in ChartTypes, table \in JobTables, options \in OptionLists :
       chartJob = [pc |-> "input", type |-> type, table |-> table, options |-> options,
                   validation |-> NoValidation, build |-> NoBuild,
                   shown |-> FALSE, offer |-> NoOffer, render |-> NoRender]

notChart == <<hookInstalled, extractJob, sessionView, tableJob, dashJob, callJob,
              respVars, isWaitingForResponse, modeVars,
              msgVars, vizVars, legacyVars, hookVars, speechVars, callVars, reqVars,
              sessVars, ghostVars>>

\* ChartCompatibility.validateChartCompatibility(type, table)
validateChart ==
  /\ chartJob.pc = "input"
  /\ chartJob' = [chartJob EXCEPT !.pc = "validated",
        !.validation = validateHRChartCompatibility(chartJob.type, chartJob.table)]
  /\ UNCHANGED notChart

\* ChartCompatibility.transformAnalyticsData(type, table)
buildChart ==
  /\ chartJob.pc = "validated"
  /\ chartJob' = [chartJob EXCEPT !.pc = "built",
        !.build = transformHRAnalyticsData(chartJob.type, chartJob.table)]
  /\ UNCHANGED notChart

\* renderVisualizationOffer for the table as cached from the backend: an empty
\* table and an empty set of options end in showError
classifyOffer ==
  LET recommendations == getHRChartRecommendations(chartJob.table, chartJob.options) IN
  /\ chartJob.pc = "built"
  /\ chartJob' = [chartJob EXCEPT !.pc = "offered",
        !.shown = (chartJob.table.rows > 0 /\ Selectable(recommendations) # {}),
        !.offer = IF chartJob.table.rows > 0 THEN recommendations ELSE NoOffer]
  /\ UNCHANGED notChart

\* columns[i] of the cached table, whose columns are the keys of its rows
ColumnAt(keys, i) == IF i <= Len(keys) THEN keys[i] ELSE "undefined"

convertToCompatibilityFormat(analyticsData) ==
  [analyticsData EXCEPT !.keys = <<ColumnAt(analyticsData.keys, 1),
                                   ColumnAt(analyticsData.keys, 2)>>]

\* the Chart instance createValidatedHRChart returns, by its config (NoConfig = null)
createValidatedHRChart(chartType, analyticsData) ==
  LET compatibility == validateHRChartCompatibility(chartType, analyticsData)
      built == transformHRAnalyticsData(chartType, analyticsData) IN
  IF ~compatibility.compatible
  THEN [type |-> chartType, instance |-> NoConfig, reason |-> compatibility.reason]
  ELSE IF built.threw
  THEN [type |-> chartType, instance |-> NoConfig, reason |-> built.reason]
  ELSE [type |-> chartType, instance |-> built.config, reason |-> NoReason]

\* click on a selectable option: selectChart, then renderSelectedChart
selectOption(chartType) ==
  /\ chartJob.pc = "offered"
  /\ chartJob.shown
  /\ chartType \in Selectable(chartJob.offer)
  /\ chartJob' = [chartJob EXCEPT !.pc = "rendered",
        !.render = createValidatedHRChart(chartType,
                      convertToCompatibilityFormat(chartJob.table))]
  /\ UNCHANGED notChart

NextChart ==
  \/ validateChart
  \/ buildChart
  \/ classifyOffer
  \/ \E chartType \in ChartTypes : selectOption(chartType)

SpecChart == InitChart /\ [][NextChart]_vars

(***************************************************************************)
(* The analytics data extractor on JavaScript values: core-app.js           *)
(* extractAnalyticsData and visualization-module.js cacheHRAnalyticsData.   *)
(* A value is given by its kind (undefined, null, string, array, object)    *)
(* and, for an array, by its items; a row by the keys it has.               *)
(***************************************************************************)
Undefined == [kind |-> "undefined", items |-> <<>>]
Array(items) == [kind |-> "array", items |-> items]
AString == [kind |-> "string", items |-> <<>>]
Truthy(v) == v.kind \notin {"undefined", "null"}

Row(keys) == [kind |-> "object", keys |-> keys]
NullRow == [kind |-> "null", keys |-> <<>>]
FullRow == Row(<<"band", "employee_count">>)
ShortRow == Row(<<"band">>)

ColumnsVals == {Undefined, AString, Array(<<>>), Array(<<"band", "employee_count">>)}
RowsVals ==
  {Undefined, AString, Array(<<>>), Array(<<FullRow>>), Array(<<FullRow, FullRow>>),
   Array(<<FullRow, ShortRow>>), Array(<<NullRow>>)}

Table(columns, rows) == [kind |-> "object", columns |-> columns, rows |-> rows]
UndefinedTable == [kind |-> "undefined", columns |-> Undefined, rows |-> Undefined]
NullTable == [kind |-> "null", columns |-> Undefined, rows |-> Undefined]
Tables == {Table(c, r) : c \in ColumnsVals, r \in RowsVals}

ResponseDatas ==
  [ kind : {"object"}, data : {UndefinedTable} \cup Tables, columns : ColumnsVals,
    rows : RowsVals,
    analytics_data : {UndefinedTable, Table(Undefined, Array(<<FullRow>>)),
                      Table(Undefined, Array(<<NullRow>>))} ]
    \cup
  [ kind : {"null", "number"}, data : {UndefinedTable}, columns : {Undefined},
    rows : {Undefined}, analytics_data : {UndefinedTable} ]

\* extractAnalyticsData(responseData); a property read of a number is undefined
extractAnalyticsDataOf(responseData) ==
  IF responseData.kind = "null" THEN NullTable
  ELSE IF Truthy(responseData.data) /\ Truthy(responseData.data.columns)
            /\ Truthy(responseData.data.rows)
  THEN Table(responseData.data.columns, responseData.data.rows)
  ELSE IF Truthy(responseData.columns) /\ Truthy(responseData.rows)
  THEN Table(responseData.columns, responseData.rows)
  ELSE IF Truthy(responseData.analytics_data) THEN responseData.analytics_data
  ELSE NullTable

\* columns[i]: an item of an array, a character of a string, else undefined
ColumnName(columns, i) ==
  IF columns.kind = "array" /\ i <= Len(columns.items) THEN columns.items[i]
  ELSE IF columns.kind = "string" THEN "a character"
  ELSE "undefined"

NoEntry ==
  [threw |-> FALSE, stored |-> FALSE, table |-> NullTable, categoryKey |-> "undefined",
   valueKey |-> "undefined", source |-> "none"]

\* cacheHRAnalyticsData(turnId, analyticsData): the entry stored for the turn, or
\* the TypeError of Object.keys(null)
cacheHRAnalyticsDataOf(analyticsData) ==
  LET rows == analyticsData.rows
      firstRow == rows.items[1] IN
  IF ~Truthy(analyticsData) THEN NoEntry
  ELSE IF Truthy(analyticsData.columns) /\ Truthy(rows)
  THEN [NoEntry EXCEPT !.stored = TRUE, !.table = analyticsData,
          !.categoryKey = ColumnName(analyticsData.columns, 1),
          !.valueKey = ColumnName(analyticsData.columns, 2),
          !.source = "backend_explicit"]
  ELSE IF rows.kind = "array" /\ Len(rows.items) > 0
  THEN IF firstRow.kind = "null" THEN [NoEntry EXCEPT !.threw = TRUE]
       ELSE IF Len(firstRow.keys) >= 2
       THEN [NoEntry EXCEPT !.stored = TRUE,
               !.table = Table(Array(firstRow.keys), rows),
               !.categoryKey = firstRow.keys[1], !.valueKey = firstRow.keys[2],
               !.source = "backend_rows"]
       ELSE NoEntry
  ELSE NoEntry

(***************************************************************************)
(* SpecExtract: a responseData of a bot message with a turn_id goes        *)
(* through addMessage's extraction and the cache of the chart module.      *)
(***************************************************************************)
InitExtract ==
  /\ InitUI
  /\ callJob = NoJob
  /\ dashJob = NoJob
  /\ tableJob = NoJob
  /\ sessionView = NoJob
  /\ ~hookInstalled
  /\ ChatOpen
  /\ inflight = NoResp
  /\ chartJob = NoJob
  /\ \E responseData \in ResponseDatas :
       extractJob = [pc |-> "input", input |-> responseData, result |-> NullTable,
                     entry |-> NoEntry]

\* addMessage: const analyticsData = extractAnalyticsData(responseData)
extractData ==
  /\ extractJob.pc = "input"
  /\ extractJob' = [extractJob EXCEPT !.pc = "extracted",
                      !.result = extractAnalyticsDataOf(extractJob.input)]
  /\ UNCHANGED <<hookInstalled, chartJob, sessionView, tableJob, dashJob, callJob,
                 respVars, isWaitingForResponse, modeVars,
                 msgVars, vizVars, legacyVars, hookVars, speechVars, callVars, reqVars,
                 sessVars, ghostVars>>

\* addMessage: if (analyticsData && responseData.turn_id) setAnalyticsData(...)
cacheData ==
  /\ extractJob.pc = "extracted"
  /\ extractJob' = [extractJob EXCEPT !.pc = "cached",
                      !.entry = cacheHRAnalyticsDataOf(extractJob.result)]
  /\ UNCHANGED <<hookInstalled, chartJob, sessionView, tableJob, dashJob, callJob,
                 respVars, isWaitingForResponse, modeVars,
                 msgVars, vizVars, legacyVars, hookVars, speechVars, callVars, reqVars,
                 sessVars, ghostVars>>

NextExtract ==
  \/ extractData
  \/ cacheData

SpecExtract == InitExtract /\ [][NextExtract]_vars

(***************************************************************************)
(* SpecSession: the sidebar of stored conversations.  loadSession of       *)
(* chart-export-manager.js makes a session the active chat, empties the    *)
(* message view and awaits the /history fetch; newChat and deleteSession   *)
(* empty the view too.  A message shown is known by the conversation it    *)
(* belongs to.                                                             *)
(***************************************************************************)
MaxFetches == 2
MaxNewChats == 2

SessionIds == {"s1", "s2"}
NewChatIds == <<"n1", "n2">>
NoChat == "null"
LoadFailure == "Failed to load conversation."

InitSession ==
  /\ InitUI
  /\ chartJob = NoJob
  /\ extractJob = NoJob
  /\ tableJob = NoJob
  /\ dashJob = NoJob
  /\ callJob = NoJob
  /\ ~hookInstalled
  /\ inflight = NoResp
  /\ chatVisible = FALSE
  /\ hasActiveChat = FALSE
  /\ sessionView = [activeChatId |-> NoChat, messages |-> {},
                    fetches |-> [s \in SessionIds |-> 0], newChats |-> 0]

notSession == <<hookInstalled, chartJob, extractJob, tableJob, dashJob, callJob,
                respVars, isWaitingForResponse, modeVars, msgVars, vizVars,
                legacyVars, hookVars, speechVars, callVars, reqVars, sessVars,
                ghostVars>>

\* click on a session of the sidebar: loadSession(sessionId) up to its await
loadSessionOf(sessionId) ==
  /\ ~isWaitingForResponse
  /\ sessionView.fetches[sessionId] < MaxFetches
  /\ sessionView' = [sessionView EXCEPT !.activeChatId = sessionId, !.messages = {},
                       !.fetches[sessionId] = @ + 1]
  /\ UNCHANGED notSession

\* loadSession(sessionId) after its await: every stored message is appended
\* with addMessage; a failed fetch appends the failure message
historyArrives(sessionId, ok, stored) ==
  /\ sessionView.fetches[sessionId] > 0
  /\ sessionView' = [sessionView EXCEPT !.fetches[sessionId] = @ - 1,
        !.messages = @ \cup (IF ~ok THEN {LoadFailure}
                             ELSE IF stored THEN {sessionId} ELSE {})]
  /\ UNCHANGED notSession

\* core-app.js newChat(): activeChatId = crypto.randomUUID()
newChatStarted ==
  /\ sessionView.newChats < MaxNewChats
  /\ sessionView' = [sessionView EXCEPT !.newChats = @ + 1,
        !.activeChatId = NewChatIds[sessionView.newChats + 1], !.messages = {}]
  /\ UNCHANGED notSession

\* deleteSession(sessionId) answered ok for the active session
activeSessionDeleted ==
  /\ sessionView.activeChatId # NoChat
  /\ sessionView' = [sessionView EXCEPT !.activeChatId = NoChat, !.messages = {}]
  /\ UNCHANGED notSession

NextSession ==
  \/ \E sessionId \in SessionIds : loadSessionOf(sessionId)
  \/ \E sessionId \in SessionIds, ok \in BOOLEAN, stored \in BOOLEAN :
       historyArrives(sessionId, ok, stored)
  \/ newChatStarted
  \/ activeSessionDeleted

SpecSession == InitSession /\ [][NextSession]_vars

(***************************************************************************)
(* The sortable table of EnhancedHRAnalyticsRenderer.  A cell is a number, *)
(* null, undefined or a string; a string is a word followed by a run of    *)
(* digits (n = -1: no digits), as in "Level 10" or "Staff".                *)
(***************************************************************************)
MaxRows == 3
MaxDashboards == 2

NoDigits == -1
Num(n) == [kind |-> "number", word |-> "", n |-> n]
Str(word, n) == [kind |-> "string", word |-> word, n |-> n]
NullCell == [kind |-> "null", word |-> "", n |-> NoDigits]
UndefinedCell == [kind |-> "undefined", word |-> "", n |-> NoDigits]

\* col.toLowerCase().includes(keyword), by the keywords a column name holds
ColumnWords(col) ==
  CASE col = "band" -> {"band"}
    [] col = "tier" -> {"tier"}
    [] col = "job_level" -> {"level"}
    [] col = "category" -> {"category"}
    [] col = "department" -> {"department"}
    [] col = "lokasi" -> {"lokasi"}
    [] col = "percent" -> {"percent"}
    [] OTHER -> {}
ColumnIncludes(col, keywords) == ColumnWords(col) \cap keywords # {}

\* columns.find(test): the first column passing the test ("undefined" = none)
NoColumn == "undefined"
Find(columns, Test(_)) ==
  LET passing == {i \in 1..Len(columns) : Test(columns[i])} IN
  IF passing = {} THEN NoColumn
  ELSE columns[CHOOSE i \in passing : \A j \in passing : i <= j]

\* row[col]; a row is given by its keys, in the order of Object.keys, and its cells
CellOf(row, col) == IF col \in DOMAIN row.cells THEN row.cells[col] ELSE UndefinedCell

findValueColumn(columns, firstRow) ==
  LET IsValue(col) ==
        /\ ~ColumnIncludes(col, {"category", "percent", "persentase"})
        /\ CellOf(firstRow, col).kind = "number" IN
  Find(columns, IsValue)

\* Boolean(cell): filter(Boolean) and cell || x
CellTruthy(cell) ==
  \/ cell.kind = "number" /\ cell.n # 0
  \/ cell.kind = "string" /\ (cell.word # "" \/ cell.n # NoDigits)

\* /\d/.test(String(cat))
HasDigit(cell) == cell.n # NoDigits

ColumnCells(rows, col) == [i \in 1..Len(rows) |-> CellOf(rows[i], col)]
CountOf(cells, Test(_)) == Cardinality({i \in 1..Len(cells) : Test(cells[i])})

\* detectNumericOrder(rows.map(row => row[categoryColumn]).filter(Boolean))
detectNumericOrder(cells) ==
  LET categories == CountOf(cells, CellTruthy)
      withNumbers == CountOf(cells, LAMBDA c : CellTruthy(c) /\ HasDigit(c)) IN
  categories > 0 /\ 2 * withNumbers > categories

SortOf(column, direction) == [column |-> column, direction |-> direction]
NoSort == SortOf(NoColumn, "none")

detectOptimalSort_ValueFirst(rows) ==
  LET valueColumn == findValueColumn(rows[1].keys, rows[1]) IN
  IF valueColumn # NoColumn THEN SortOf(valueColumn, "desc")
  ELSE SortOf(rows[1].keys[1], "asc")

detectOptimalSort(rows) ==
  LET firstRow == rows[1]
      columns == firstRow.keys
      bandColumn == Find(columns, LAMBDA c : ColumnIncludes(c, {"band"}))
      gradeColumn == Find(columns, LAMBDA c : ColumnIncludes(c, {"grade", "level", "tier"}))
      categoryColumn == Find(columns, LAMBDA c : ColumnIncludes(c, {"category"}))
      textColumn ==
        Find(columns, LAMBDA c : ColumnIncludes(c, {"department", "location", "education",
                                                    "pendidikan", "lokasi", "dept"}))
      valueColumn == findValueColumn(columns, firstRow) IN
  IF Len(rows) = 0 THEN SortOf("value", "desc")
  ELSE IF bandColumn # NoColumn THEN SortOf(bandColumn, "asc")
  ELSE IF gradeColumn # NoColumn THEN SortOf(gradeColumn, "asc")
  ELSE IF categoryColumn # NoColumn
            /\ detectNumericOrder(ColumnCells(rows, categoryColumn))
  THEN SortOf(categoryColumn, "asc")
  ELSE IF textColumn # NoColumn THEN SortOf(textColumn, "asc")
  ELSE IF valueColumn # NoColumn THEN SortOf(valueColumn, "desc")
  ELSE SortOf(columns[1], "asc")

\* String(value || '').toLowerCase(), as a word and a run of digits
LowerCase(word) ==
  CASE word = "Level" -> "level"
    [] word = "Staff" -> "staff"
    [] word = "Associate" -> "associate"
    [] word = "N/A" -> "n/a"
    [] OTHER -> word
StringOf(word, n) == [word |-> word, n |-> n]
ToLowerString(cell) ==
  IF ~CellTruthy(cell) THEN StringOf("", NoDigits)
  ELSE IF cell.kind = "number" THEN StringOf("", cell.n)
  ELSE StringOf(LowerCase(cell.word), cell.n)

\* the decimal digits of n
RECURSIVE Digits(_)
Digits(n) == IF n < 10 THEN <<n>> ELSE Append(Digits(n \div 10), n % 10)

\* comparison of two sequences of digits, character by character
RECURSIVE CompareDigits(_, _)
CompareDigits(s, t) ==
  IF s = <<>> /\ t = <<>> THEN 0
  ELSE IF s = <<>> THEN -1
  ELSE IF t = <<>> THEN 1
  ELSE IF Head(s) # Head(t) THEN (IF Head(s) < Head(t) THEN -1 ELSE 1)
  ELSE CompareDigits(Tail(s), Tail(t))

\* the collation order of the words: the empty string, then letters in order
WordOrder == <<"", "associate", "level", "n/a", "staff">>
WordRank(word) == CHOOSE i \in 1..Len(WordOrder) : WordOrder[i] = word

\* aStr.localeCompare(bStr): a prefix sorts first, digits sort as characters
localeCompare(aStr, bStr) ==
  IF aStr.word # bStr.word
  THEN (IF WordRank(aStr.word) < WordRank(bStr.word) THEN -1 ELSE 1)
  ELSE CompareDigits(IF aStr.n = NoDigits THEN <<>> ELSE Digits(aStr.n),
                     IF bStr.n = NoDigits THEN <<>> ELSE Digits(bStr.n))

\* extractNumber(str): parseInt of the first run of digits, or null (NoDigits)
extractNumber(str) == str.n

\* the comparator of sortTableData
Comparison(a, b, sortColumn, direction) ==
  LET aVal == CellOf(a, sortColumn)
      bVal == CellOf(b, sortColumn)
      aStr == ToLowerString(aVal)
      bStr == ToLowerString(bVal)
      aNum == extractNumber(aStr)
      bNum == extractNumber(bStr)
      comparison ==
        IF aVal.kind = "number" /\ bVal.kind = "number" THEN aVal.n - bVal.n
        ELSE IF ColumnIncludes(sortColumn, {"band", "grade", "level"})
                  /\ aNum # NoDigits /\ bNum # NoDigits
        THEN aNum - bNum
        ELSE localeCompare(aStr, bStr) IN
  IF direction = "asc" THEN comparison ELSE -comparison

\* [...rows].sort(comparator): the sort is stable; every table considered has
\* a comparator that orders its rows consistently
RECURSIVE InsertSorted(_, _, _, _)
InsertSorted(sorted, row, sortColumn, direction) ==
  IF sorted = <<>> THEN <<row>>
  ELSE IF Comparison(row, sorted[Len(sorted)], sortColumn, direction) >= 0
  THEN Append(sorted, row)
  ELSE Append(InsertSorted(SubSeq(sorted, 1, Len(sorted) - 1), row, sortColumn, direction),
              sorted[Len(sorted)])

RECURSIVE sortTableData(_, _, _)
sortTableData(rows, sortColumn, direction) ==
  IF rows = <<>> THEN <<>>
  ELSE InsertSorted(sortTableData(SubSeq(rows, 1, Len(rows) - 1), sortColumn, direction),
                    rows[Len(rows)], sortColumn, direction)

\* a total: undefined, a number, or the string that + makes of a number and a
\* string cell, given by the pieces concatenated
TotalOf(kind, n, text) == [kind |-> kind, n |-> n, text |-> text]
UndefinedTotal == TotalOf("undefined", 0, <<>>)
NotAvailable == TotalOf("string", 0, <<Str("N/A", NoDigits)>>)

\* sum + (row[valueColumn] || 0)
Plus(sum, cell) ==
  LET value == IF CellTruthy(cell) THEN cell ELSE Num(0) IN
  IF sum.kind = "number" /\ value.kind = "number"
  THEN TotalOf("number", sum.n + value.n, <<>>)
  ELSE TotalOf("string", 0,
               (IF sum.kind = "number" THEN <<Num(sum.n)>> ELSE sum.text) \o <<value>>)

\* rows.reduce((sum, row) => sum + (row[valueColumn] || 0), 0)
RECURSIVE SumRows(_, _)
SumRows(rows, valueColumn) ==
  IF rows = <<>> THEN TotalOf("number", 0, <<>>)
  ELSE Plus(SumRows(SubSeq(rows, 1, Len(rows) - 1), valueColumn),
            CellOf(rows[Len(rows)], valueColumn))

\* the total of a table whose own total is to be computed
computedTotal(rows, total) ==
  LET valueColumn == findValueColumn(rows[1].keys, rows[1]) IN
  IF valueColumn # NoColumn THEN SumRows(rows, valueColumn) ELSE total

TotalTruthy(total) ==
  \/ total.kind = "number" /\ total.n # 0
  \/ total.kind = "string"

\* the keys of tableSortState and renderedAnalytics: messageId is a number,
\* the data-table-id attribute read back from a header is a string
NumberKey(id) == [type |-> "number", id |-> id]
StringKey(id) == [type |-> "string", id |-> id]
SortKeys == {NumberKey(id) : id \in 1..MaxDashboards} \cup
            {StringKey(id) : id \in 1..MaxDashboards}

\* the table card after renderSortableTableHTML(card, rows, total, messageId):
\* the rows in order, the header carrying the sort icon, the footer
\* formatNumber(total || 'N/A'), and data-table-id
NoCard == [rows |-> <<>>, sorted |-> NoSort, footer |-> UndefinedTotal, tableId |-> 0]
renderSortableTableHTML(rows, total, messageId, sortState) ==
  [rows |-> rows,
   sorted |-> sortState[NumberKey(messageId)],
   footer |-> IF TotalTruthy(total) THEN total ELSE NotAvailable,
   tableId |-> messageId]

\* renderSmartSortableDataTable(dataObj, messageId): the sort state and the card
renderSmartSortableDataTable(dataObj, messageId, sortState) ==
  LET rows == dataObj.rows
      total == IF dataObj.total.kind = "undefined"
               THEN computedTotal(rows, dataObj.total) ELSE dataObj.total
      smartSort == detectOptimalSort(rows)
      sortedRows == sortTableData(rows, smartSort.column, smartSort.direction)
      newState == [sortState EXCEPT ![NumberKey(messageId)] = smartSort] IN
  [tableSortState |-> newState,
   card |-> renderSortableTableHTML(sortedRows, total, messageId, newState)]

\* handleSort(column, tableId) for the header clicked in dashboard d: the sort
\* state and the dashboards afterwards.  renderedAnalytics holds one entry per
\* dashboard, in the order of rendering, under its messageId
handleSort(column, d, dashboards, sortState) ==
  LET tableId == StringKey(dashboards[d].card.tableId)
      currentSort == sortState[tableId]
      newDirection ==
        IF currentSort # NoSort /\ currentSort.column = column
        THEN (IF currentSort.direction = "desc" THEN "asc" ELSE "desc")
        ELSE IF ColumnIncludes(column, {"band", "grade", "level"}) THEN "asc"
        ELSE "desc"
      state1 == [sortState EXCEPT ![tableId] = SortOf(column, newDirection)]
      found == {i \in 1..Len(dashboards) : NumberKey(i) = tableId}
      fallbackKey == Len(dashboards)
      key == IF found # {} THEN CHOOSE i \in found : TRUE ELSE fallbackKey
      state2 == IF found # {} THEN state1
                ELSE [state1 EXCEPT ![NumberKey(fallbackKey)] = SortOf(column, newDirection)]
      dataObj == dashboards[key].data
      rows == dataObj.rows
      total == IF ~TotalTruthy(dataObj.total)
               THEN computedTotal(rows, dataObj.total) ELSE dataObj.total
      sortedRows == sortTableData(rows, column, newDirection) IN
  [tableSortState |-> state2,
   dashboards |->
     IF Len(rows) > 0
     THEN [dashboards EXCEPT ![key].card =
             renderSortableTableHTML(sortedRows, total, key, state2)]
     ELSE dashboards]

(***************************************************************************)
(* The tables given to the renderer.  A shape names the keys of the rows,  *)
(* the key of the labels and the key of the values; a third key holds a   *)
(* percentage.                                                             *)
(***************************************************************************)
Shape(keys, label, value) == [keys |-> keys, label |-> label, value |-> value]
Shapes ==
  {Shape(<<"band", "count">>, "band", "count"),
   Shape(<<"tier", "count">>, "tier", "count"),
   Shape(<<"category", "count">>, "category", "count"),
   Shape(<<"department", "count">>, "department", "count"),
   Shape(<<"lokasi", "count">>, "lokasi", "count"),
   Shape(<<"status", "count">>, "status", "count"),
   Shape(<<"status", "percent">>, "status", "percent"),
   Shape(<<"job_level", "percent", "count">>, "job_level", "count")}

Pair(label, value) == [label |-> label, value |-> value]
RowPairs ==
  {Pair(Str("Level", 3), Num(10)), Pair(Str("Level", 1), Num(5)),
   Pair(Str("Level", 2), Num(7)), Pair(Str("Level", 10), Num(0)),
   Pair(Str("Associate", NoDigits), NullCell),
   Pair(Str("Level", 2), Str("N/A", NoDigits))}

MakeRow(shape, pair) ==
  [keys |-> shape.keys,
   cells |-> [col \in {shape.keys[i] : i \in 1..Len(shape.keys)} |->
                IF col = shape.label THEN pair.label
                ELSE IF col = shape.value THEN pair.value
                ELSE Num(50)]]

DataObj(rows, total) == [rows |-> rows, total |-> total]
\* the tables rendered alone: without a total from the backend, and the band
\* tables also with one
SuppliedTotal == TotalOf("number", 99, <<>>)
ShapeTotals ==
  (Shapes \X {UndefinedTotal})
    \cup {<<Shape(<<"band", "count">>, "band", "count"), SuppliedTotal>>}
TableDatas ==
  UNION {{DataObj([i \in 1..n |-> MakeRow(st[1], pairs[i])], st[2]) :
            st \in ShapeTotals, pairs \in [1..n -> RowPairs]} : n \in 1..MaxRows}

\* the tables of a conversation with several dashboards; one has no rows
ScenarioA ==
  DataObj(<<MakeRow(Shape(<<"band", "count">>, "band", "count"), Pair(Str("Level", 3), Num(10))),
            MakeRow(Shape(<<"band", "count">>, "band", "count"), Pair(Str("Level", 1), Num(5))),
            MakeRow(Shape(<<"band", "count">>, "band", "count"), Pair(Str("Level", 2), Num(7)))>>,
          UndefinedTotal)
Departments ==
  DataObj(<<MakeRow(Shape(<<"department", "count">>, "department", "count"),
                    Pair(Str("Staff", NoDigits), Num(5))),
            MakeRow(Shape(<<"department", "count">>, "department", "count"),
                    Pair(Str("Associate", NoDigits), Num(10)))>>,
          UndefinedTotal)
FewDatas == {ScenarioA, Departments, DataObj(<<>>, UndefinedTotal)}

(***************************************************************************)
(* SpecTable: one table is rendered as a dashboard and its headers are     *)
(* clicked.  SpecBoards: several dashboards are rendered, one after the    *)
(* other, and the headers of any of them are clicked.                      *)
(***************************************************************************)
InitTable ==
  /\ InitUI
  /\ chartJob = NoJob
  /\ extractJob = NoJob
  /\ sessionView = NoJob
  /\ dashJob = NoJob
  /\ callJob = NoJob
  /\ ~hookInstalled
  /\ ChatOpen
  /\ inflight = NoResp
  /\ tableJob = [dashboards |-> <<>>, tableSortState |-> [k \in SortKeys |-> NoSort]]

notTable == <<hookInstalled, chartJob, extractJob, sessionView, dashJob, callJob,
              respVars, isWaitingForResponse, modeVars, msgVars, vizVars, legacyVars,
              hookVars, speechVars, callVars, reqVars, sessVars, ghostVars>>

\* EnhancedHRAnalyticsRenderer.render(responseData, messageId, container) with
\* responseData.data = dataObj and the next messageId
render(dataObj, dashboards, sortState) ==
  LET messageId == Len(dashboards) + 1
      table == renderSmartSortableDataTable(dataObj, messageId, sortState) IN
  IF Len(dataObj.rows) > 0
  THEN [dashboards |-> Append(dashboards, [data |-> dataObj, card |-> table.card]),
        tableSortState |-> table.tableSortState]
  ELSE [dashboards |-> Append(dashboards, [data |-> dataObj, card |-> NoCard]),
        tableSortState |-> sortState]

renderDashboard(dataObj) ==
  /\ Len(tableJob.dashboards) < MaxDashboards
  /\ tableJob' = render(dataObj, tableJob.dashboards, tableJob.tableSortState)
  /\ UNCHANGED notTable

\* the columns in the header of a card
HeaderOf(card) ==
  IF card = NoCard THEN {} ELSE {card.rows[1].keys[i] : i \in 1..Len(card.rows[1].keys)}

\* click on the header of a column of the table of dashboard d
clickHeader(d, column) ==
  /\ d \in 1..Len(tableJob.dashboards)
  /\ column \in HeaderOf(tableJob.dashboards[d].card)
  /\ tableJob' = handleSort(column, d, tableJob.dashboards, tableJob.tableSortState)
  /\ UNCHANGED notTable

Columns == UNION {{shape.keys[i] : i \in 1..Len(shape.keys)} : shape \in Shapes}

NextTable ==
  \/ /\ tableJob.dashboards = <<>>
     /\ \E dataObj \in TableDatas : renderDashboard(dataObj)
  \/ \E column \in Columns : clickHeader(1, column)

SpecTable == InitTable /\ [][NextTable]_vars

NextBoards ==
  \/ \E dataObj \in FewDatas : renderDashboard(dataObj)
  \/ \E d \in 1..MaxDashboards, column \in Columns : clickHeader(d, column)

SpecBoards == InitTable /\ [][NextBoards]_vars

(***************************************************************************)
(* The blocks of one analytics dashboard (SpecDash)                        *)
(*                                                                         *)
(* handleBackendResponse hands an analytics result to addMessage, which    *)
(* lets EnhancedHRAnalyticsRenderer.render build the dashboard block by    *)
(* block, and then asks the visualization module for the chart offer,      *)
(* which is appended to the message list when its request returns.         *)
(* dashJob.blocks is the vertical order of the blocks in the message list; *)
(* dashJob.offerPending tells that the offer was requested and has not     *)
(* been appended yet.  The answer is a sequence of lines.                  *)
(***************************************************************************)
MaxLines == 4

\* the lines an answer is made of: the two delimiters, a data row, a summary
\* of more than 20 characters, a short line, a bullet fact
DataLine == "DATA:"
AnalysisLine == "ANALYSIS:"
RowLine == "Row 1: Band 1 | 5"
SummaryLine == "Band 1 has the fewest employees."
ShortLine == "Total: 12"
FactLine == "- Band 3 is the largest group"
Lines == {DataLine, AnalysisLine, RowLine, SummaryLine, ShortLine, FactLine}

\* line.includes(marker), for the markers the renderer looks for
LineIncludes(line, marker) ==
  CASE marker = "DATA:" -> line = DataLine
    [] marker = "ANALYSIS:" -> line = AnalysisLine
    [] marker = "Row " -> line = RowLine
    [] marker = "Total Rows:" -> FALSE
    [] marker = "- " -> line = FactLine
    [] OTHER -> FALSE

\* textResponse.includes(marker)
TextIncludes(text, marker) == \E i \in 1..Len(text) : LineIncludes(text[i], marker)

\* line.length
LineLength(line) ==
  CASE line = DataLine -> 5
    [] line = AnalysisLine -> 9
    [] line = RowLine -> 17
    [] line = SummaryLine -> 32
    [] line = ShortLine -> 9
    [] line = FactLine -> 29
    [] OTHER -> 0

\* positions of the "ANALYSIS:" delimiters of a text
AnalysisMarks(text) == {i \in 1..Len(text) : text[i] = AnalysisLine}

\* textResponse.split("ANALYSIS:")[0]
SplitFirst(text) ==
  IF AnalysisMarks(text) = {} THEN text
  ELSE LET first == CHOOSE i \in AnalysisMarks(text) : \A j \in AnalysisMarks(text) : i <= j
       IN SubSeq(text, 1, first - 1)

\* textResponse.split("ANALYSIS:")[1], << >> when it is empty or missing
SplitSecond(text) ==
  IF AnalysisMarks(text) = {} THEN <<>>
  ELSE LET first == CHOOSE i \in AnalysisMarks(text) : \A j \in AnalysisMarks(text) : i <= j
           later == {i \in AnalysisMarks(text) : i > first}
           stop == IF later = {} THEN Len(text) + 1
                   ELSE CHOOSE i \in later : \A j \in later : i <= j
       IN SubSeq(text, first + 1, stop - 1)

\* lines.filter(...) of renderAnalysisWithFallback: not a delimiter, not a row
IsSummaryCandidate(line) ==
  /\ ~LineIncludes(line, "DATA:")
  /\ ~LineIncludes(line, "Total Rows:")
  /\ ~LineIncludes(line, "Row ")

\* the blocks of a dashboard
InsightOf(origin, text) == [kind |-> "insight", origin |-> origin, text |-> text]
FactsOf(origin, text) == [kind |-> "facts", origin |-> origin, text |-> text]
TableBlock == [kind |-> "table", origin |-> "backend", text |-> <<>>]
OfferBlock == [kind |-> "offer", origin |-> "backend", text |-> <<>>]

\* createAnalysisCardFromText: the lines holding '- ' become the facts
createAnalysisCardFromText(analysisText) ==
  FactsOf("text", SelectSeq(analysisText, LAMBDA line : LineIncludes(line, "- ")))

\* renderAnalysisWithFallback: the cards it appends and what it reports
renderAnalysisWithFallback(responseData) ==
  LET text == responseData.answer
      detected == text # <<>> /\ (TextIncludes(text, "DATA:") \/ TextIncludes(text, "ANALYSIS:"))
      analysisText == SplitSecond(text)
      hasAnalysis == detected /\ analysisText # <<>>
      dataPart == SplitFirst(text)
      lines == SelectSeq(dataPart, IsSummaryCandidate)
      hasNarrative == /\ detected
                      /\ dataPart # <<>>
                      /\ TextIncludes(dataPart, "DATA:")
                      /\ lines # <<>>
                      /\ LineLength(lines[Len(lines)]) > 20
  IN [hasNarrative |-> hasNarrative,
      hasAnalysis |-> hasAnalysis,
      cards |-> (IF hasAnalysis THEN <<createAnalysisCardFromText(analysisText)>> ELSE <<>>)
                \o (IF hasNarrative THEN <<InsightOf("text", <<lines[Len(lines)]>>)>> ELSE <<>>)]

\* EnhancedHRAnalyticsRenderer.render: the blocks of the dashboard in the
\* order they are appended
dashboardBlocks(responseData) ==
  LET analysisRendered == renderAnalysisWithFallback(responseData)
  IN analysisRendered.cards
     \o (IF responseData.narrative /\ ~analysisRendered.hasNarrative
         THEN <<InsightOf("backend", <<>>)>> ELSE <<>>)
     \o (IF responseData.analysis /\ ~analysisRendered.hasAnalysis
         THEN <<FactsOf("backend", <<>>)>> ELSE <<>>)
     \o (IF responseData.hasRows THEN <<TableBlock>> ELSE <<>>)

\* the answers of at most MaxLines lines
Answers == UNION {[1..n -> Lines] : n \in 0..MaxLines}

\* the analytics results of the backend: narrative, analysis and rows are
\* present or not, visualization_available is true (with both ids) or not
AnalyticsResults ==
  [answer : Answers, narrative : BOOLEAN, analysis : BOOLEAN,
   hasRows : BOOLEAN, visualization_available : BOOLEAN]

NoResult == [answer |-> <<>>, narrative |-> FALSE, analysis |-> FALSE,
             hasRows |-> FALSE, visualization_available |-> FALSE]

InitDash ==
  /\ InitUI
  /\ chartJob = NoJob
  /\ extractJob = NoJob
  /\ sessionView = NoJob
  /\ tableJob = NoJob
  /\ callJob = NoJob
  /\ ~hookInstalled
  /\ ChatOpen
  /\ inflight = NoResp
  /\ dashJob = [response |-> NoResult, rendered |-> FALSE, blocks |-> <<>>,
                offerPending |-> FALSE]

notDash == <<hookInstalled, chartJob, extractJob, sessionView, tableJob, callJob,
             respVars, isWaitingForResponse, modeVars, msgVars, vizVars, legacyVars,
             hookVars, speechVars, callVars, reqVars, sessVars, ghostVars>>

\* handleBackendResponse with an analytics result: addMessage renders the
\* dashboard, then the chart offer is requested
handleAnalyticsResult(responseData) ==
  /\ ~dashJob.rendered
  /\ dashJob' = [response |-> responseData,
                 rendered |-> TRUE,
                 blocks |-> dashboardBlocks(responseData),
                 offerPending |-> responseData.visualization_available]
  /\ UNCHANGED notDash

\* renderVisualizationOffer appends the offer bubble below what the message
\* list holds
offerAppended ==
  /\ dashJob.rendered
  /\ dashJob.offerPending
  /\ dashJob' = [dashJob EXCEPT !.blocks = @ \o <<OfferBlock>>,
                                !.offerPending = FALSE]
  /\ UNCHANGED notDash

NextDash ==
  \/ /\ ~dashJob.rendered
     /\ \E responseData \in AnalyticsResults : handleAnalyticsResult(responseData)
  \/ offerAppended

SpecDash == InitDash /\ [][NextDash]_vars

(***************************************************************************)
(* One voice call (SpecCall, SpecCallFair)                                 *)
(*                                                                         *)
(* callJob holds the state of call-mode-module.js and of the recognizer of *)
(* speech-module.js while a call is connected: the three flags, the mute   *)
(* button, isListening, the position of the one handleCallModeInput that   *)
(* is under way ("idle", "delay" during its 300 ms wait, "asking" while    *)
(* askBackend is awaited, "resetTimer" while its 2 s timer is pending),    *)
(* the pending restartCallListening timer, and the numbers of transcripts  *)
(* accepted and dropped.  The recognizer is "off", "on" (started, so       *)
(* isListening holds) or "stopping" (stop() was called or a final result   *)
(* was delivered, and onend has not run yet).                              *)
(***************************************************************************)
MaxTranscripts == 3

InitCall ==
  /\ InitUI
  /\ chartJob = NoJob
  /\ extractJob = NoJob
  /\ sessionView = NoJob
  /\ tableJob = NoJob
  /\ dashJob = NoJob
  /\ ~hookInstalled
  /\ ChatOpen
  /\ inflight = NoResp
  /\ callJob = [isCallModeActive |-> TRUE, continuousListening |-> TRUE,
                isProcessingCall |-> FALSE, isMuted |-> FALSE, recognizer |-> "on",
                stage |-> "idle", restartTimer |-> FALSE,
                accepted |-> 0, dropped |-> 0]

notCall == <<hookInstalled, chartJob, extractJob, sessionView, tableJob, dashJob,
             respVars, isWaitingForResponse, modeVars, msgVars, vizVars, legacyVars,
             hookVars, speechVars, callVars, reqVars, sessVars, ghostVars>>

\* isListening of speech-module.js: set by onstart, cleared by onend
isListeningIn(c) == c.recognizer # "off"

\* restartCallListening on state c: nothing unless the call is active,
\* unmuted and idle; speechRecognition.start() throws when the recognizer is
\* already started, and the catch retries after 2 s
restartCallListening(c) ==
  IF ~c.isCallModeActive \/ ~c.continuousListening \/ c.isProcessingCall THEN c
  ELSE IF c.recognizer # "off" THEN [c EXCEPT !.restartTimer = TRUE]
  ELSE [c EXCEPT !.recognizer = "on"]

\* stopRecognition on state c: speechRecognition.stop() when listening
stopRecognition(c) ==
  IF isListeningIn(c) THEN [c EXCEPT !.recognizer = "stopping"] ELSE c

\* speechRecognition.onresult with a final transcript, handed to
\* handleCallModeInput up to its 300 ms wait; the recognizer, which is not
\* continuous, ends after the result
finalTranscript ==
  /\ isListeningIn(callJob)
  /\ callJob.isCallModeActive
  /\ IF callJob.isProcessingCall
     THEN /\ callJob.dropped < MaxTranscripts
          /\ callJob' = [callJob EXCEPT !.dropped = @ + 1, !.recognizer = "stopping"]
     ELSE /\ callJob.accepted < MaxTranscripts
          /\ callJob' = [callJob EXCEPT !.isProcessingCall = TRUE,
                                        !.stage = "delay",
                                        !.accepted = @ + 1,
                                        !.recognizer = "stopping"]
  /\ UNCHANGED notCall

\* speechRecognition.onend: after stop(), after a final result, or after
\* silence
onend ==
  /\ isListeningIn(callJob)
  /\ LET stopped == [callJob EXCEPT !.recognizer = "off"]
     IN callJob' = IF stopped.isCallModeActive /\ stopped.continuousListening
                      /\ ~stopped.isProcessingCall
                   THEN [stopped EXCEPT !.restartTimer = TRUE]
                   ELSE stopped
  /\ UNCHANGED notCall

\* the recognizer, once stopping, ends
recognizerStopping == callJob.recognizer = "stopping"

\* handleCallModeInput after its wait: the user message is added and
\* askBackend is started
delayElapsed ==
  /\ callJob.stage = "delay"
  /\ callJob' = [callJob EXCEPT !.stage = "asking"]
  /\ UNCHANGED notCall

\* askBackend has settled: the 2 s timer is set
askSettled ==
  /\ callJob.stage = "asking"
  /\ callJob' = [callJob EXCEPT !.stage = "resetTimer"]
  /\ UNCHANGED notCall

\* the 2 s timer of handleCallModeInput
resetTimerFires ==
  /\ callJob.stage = "resetTimer"
  /\ LET c == [callJob EXCEPT !.stage = "idle"]
     IN callJob' = IF c.isCallModeActive /\ c.continuousListening
                   THEN restartCallListening([c EXCEPT !.isProcessingCall = FALSE])
                   ELSE c
  /\ UNCHANGED notCall

\* a pending setTimeout(() => restartCallListening(), ...)
restartTimerFires ==
  /\ callJob.restartTimer
  /\ callJob' = restartCallListening([callJob EXCEPT !.restartTimer = FALSE])
  /\ UNCHANGED notCall

\* toggleMute on the muted button: unmute
unmute ==
  /\ callJob.isMuted
  /\ LET c == [callJob EXCEPT !.isMuted = FALSE, !.continuousListening = TRUE]
     IN callJob' = IF c.isCallModeActive /\ ~c.isProcessingCall
                   THEN restartCallListening(c) ELSE c
  /\ UNCHANGED notCall

\* toggleMute on the unmuted button: mute
mute ==
  /\ ~callJob.isMuted
  /\ callJob' = stopRecognition([callJob EXCEPT !.isMuted = TRUE,
                                                !.continuousListening = FALSE])
  /\ UNCHANGED notCall

NextCall ==
  \/ finalTranscript
  \/ onend
  \/ delayElapsed
  \/ askSettled
  \/ resetTimerFires
  \/ restartTimerFires
  \/ mute
  \/ unmute

SpecCall == InitCall /\ [][NextCall]_vars

\* Timers fire, requests settle and a stopping recognizer ends; a muted user
\* unmutes in the end.
SpecCallFair ==
  /\ SpecCall
  /\ WF_vars(delayElapsed)
  /\ WF_vars(askSettled)
  /\ WF_vars(resetTimerFires)
  /\ WF_vars(restartTimerFires)
  /\ WF_vars(recognizerStopping /\ onend)
  /\ WF_vars(unmute)

(***************************************************************************)
(* Claims on the classification of one response (SpecResp)                 *)
(***************************************************************************)
Handled == lastResp # NoResp
PassesChecks(r) == ~r.error /\ r.authorized # "false"
NoOfferUI ==
  /\ bubble = NoBubble
  /\ \A k \in Keys : pendingOffers[k] = 0 /\ vizSessions[k] = NoSession
PlainBubble(text) == lastBot = [kind |-> "bubble", text |-> text, table |-> FALSE]

\* C1: a response that passes the error and authorization checks and whose
\* message_type is not "analytics_result" is rendered as a regular chat bubble
\* with its answer: no dashboard and no chart offer, whatever other fields
\* (data, narrative, analysis, legacy highest/lowest/total/rows) it carries.
C1_NonAnalyticsIsText ==
  (Handled /\ PassesChecks(lastResp) /\ ~isAnalyticsResult(lastResp))
    => /\ PlainBubble(Text("answer", lastResp.answer))
       /\ dashEls = {} /\ renderedAnalytics = {} /\ tableSortState = {}
       /\ NoOfferUI

C1_Witness ==
  /\ Handled /\ PassesChecks(lastResp) /\ ~isAnalyticsResult(lastResp)
  /\ ~hookInstalled
  /\ lastResp.data = "table" /\ lastResp.narrative /\ lastResp.analysis
  /\ lastResp.legacy /\ lastResp.visualization_available = "true"
  /\ lastResp.conversation_id /\ lastResp.turn_id = "t1"
  /\ PlainBubble(Text("answer", PlainAnswer))

\* C2: first match wins in the order error, unauthorized, analytics, text: a
\* response with an error produces only the error message (no dashboard, no
\* chart offer, no legacy chart, no auto-speech) whatever else it carries, and
\* a response without error and with authorized === false produces only the
\* access-denied message.
C2_ErrorThenUnauthorizedFirst ==
  /\ (Handled /\ lastResp.error)
       => /\ PlainBubble(Text("error", ""))
          /\ dashEls = {} /\ NoOfferUI /\ legacyEls = 0 /\ legacyCharts = 0
          /\ speechTimers = 0
  /\ (Handled /\ ~lastResp.error /\ lastResp.authorized = "false")
       => /\ PlainBubble(Text("denied", lastResp.answer))
          /\ dashEls = {} /\ NoOfferUI /\ legacyEls = 0 /\ legacyCharts = 0
          /\ speechTimers = 0

C2_Witness ==
  /\ Handled /\ lastResp.error /\ lastResp.authorized = "false"
  /\ ~hookInstalled
  /\ isAnalyticsResult(lastResp) /\ lastResp.data = "table"
  /\ lastResp.visualization /\ lastResp.visualization_available = "true"
  /\ lastResp.conversation_id /\ lastResp.turn_id = "t1"
  /\ lastResp.answer = PlainAnswer
  /\ PlainBubble(Text("error", ""))

\* C3: a response with message_type "analytics_result" is rendered as a dashboard
\* only when its data is a well-formed table (columns an array, rows non-empty);
\* with any malformed or partial data the turn is a plain bubble showing the
\* original answer.
C3_MalformedDataDegradesToText ==
  (Handled /\ PassesChecks(lastResp) /\ isAnalyticsResult(lastResp))
    => /\ (lastBot.kind = "dashboard" => WellFormedTable(lastResp.data))
       /\ (~WellFormedTable(lastResp.data)
             => PlainBubble(Text("answer", lastResp.answer)))

(***************************************************************************)
(* Claims on the /ask requests (SpecAsk)                                   *)
(***************************************************************************)
TimeoutBubble == [kind |-> "bubble", text |-> Text("timeout", ""), table |-> FALSE]

\* C5: at most one /ask request is outstanding at any instant, for every
\* interleaving of sendMessage, startFromLanding, the speech-driven send and
\* handleCallModeInput with the start and the end of call mode.
C5_AtMostOneAskOutstanding ==
  Cardinality({r \in ReqIds : Outstanding(r)}) <= 1

C7_EveryAskCompletes ==
  \A r \in ReqIds :
    /\ Outstanding(r) => ENABLED abortTimer(r)
    /\ reqStage[r] \in {"sessions", "done"} => ~reqIndicator[r]

(***************************************************************************)
(* Claims on the chart offer, the chart selection and the view (SpecViz)   *)
(***************************************************************************)
\* C4: a chart offer is shown, and a chart is rendered, for a bot turn only if
\* its response has visualization_available === true and both ids: as long as no
\* handled response asked for an offer, no chart offer and no chart appears,
\* even when a response carries a chart-eligible table or a text with numbers.
\* (The legacy chart of data.visualization is a pre-built chart of its own
\* and is not counted here.)
C4_ChartsOnlyOnExplicitOffer ==
  (turnsDone > 0 /\ ~offerAsked /\ viewClears = 0)
    => /\ NoOfferUI
       /\ chartEls = {} /\ chartInstances = {}
       /\ simpleCharts = 0

\* a chart rendered for key k through the selection flow
RenderedFor(c, k) ==
  /\ c \in chartInstances /\ c \in chartEls
  /\ chartMeta[c] = k
  /\ vizSessions[k].step = "chart_rendered" /\ vizSessions[k].chart_id = c

\* the moves of a session step
StepPairs ==
  { <<"none", "showing_options">>, <<"showing_options", "chart_rendered">>,
    <<"showing_options", "none">>, <<"chart_rendered", "showing_options">> }

\* C8: the Change Type button of a rendered chart destroys the chart instance,
\* removes it from chartInstances and shows the options of its turn again, the
\* session going back to 'showing_options' with the same options; and a session
\* only moves none -> showing_options -> chart_rendered, showing_options -> none
\* and chart_rendered -> showing_options.
C8_ChangeTypeReturnsToOffered ==
  [][ /\ \A c \in ChartIds, k \in Keys :
           (RenderedFor(c, k) /\ ClickChangeType(c))
             => /\ c \notin chartInstances'
                /\ vizSessions'[k] = [vizSessions[k] EXCEPT !.step = "showing_options"]
                /\ bubble' = Bubble("options", k)
      /\ \A k \in Keys :
           \/ vizSessions'[k].step = vizSessions[k].step
           \/ <<vizSessions[k].step, vizSessions'[k].step>> \in StepPairs ]_vars

\* C9: after cancelVisualization(turnId) the turn has no entry in vizSessions,
\* and until a new offer is made for it no chart is rendered for it and no
\* session of it reappears, whatever selectChart timer is still pending.
C9_CancelEndsSelection ==
  [][ \A k \in Keys :
        /\ cancelVisualization(k) => vizSessions'[k] = NoSession
        /\ (k \in cancelled /\ k \in cancelled')
             => /\ vizSessions'[k] = NoSession
                /\ ~renderSelectedChart(k, TRUE) ]_vars

\* #messages holds no bot element
DocumentEmpty ==
  /\ lastBot.kind = "none"
  /\ dashEls = {} /\ chartEls = {} /\ bubble = NoBubble
  /\ legacyEls = 0 /\ simpleCharts = 0

\* C10: the per-turn maps hold entries only for turns whose element is in the
\* document: dashboards' maps are keyed by dashboards in #messages, chart
\* instances belong to chart containers in #messages, and when the view holds
\* no bot element no session and no cached table is left.
C10_MapsFollowTheDocument ==
  /\ renderedAnalytics \subseteq dashEls
  /\ tableSortState \subseteq dashEls
  /\ chartInstances \subseteq chartEls
  /\ DocumentEmpty
       => \A k \in Keys : vizSessions[k] = NoSession /\ hrAnalyticsCache[k] = "missing"

(***************************************************************************)
(* Claims on chart compatibility (SpecChart)                               *)
(***************************************************************************)
\* a non-empty category -> value table
Categorical(table) == table.keys = <<"band", "employee_count">> /\ table.rows > 0
Validated == chartJob.pc # "input"
Offered == chartJob.pc \in {"offered", "rendered"}
RadialTypes == {"pie", "doughnut", "polarArea", "polar_area", "radar"}

\* C11: for a categorical table pie, doughnut, polarArea and radar are
\* incompatible exactly when the category count is greater than 15, with a
\* reason quoting the count, both in validation and in the classification of
\* the options of an offer.
C11_RadialCeilingIsFifteen ==
  /\ (Validated /\ Categorical(chartJob.table) /\ chartJob.type \in RadialTypes)
       => /\ chartJob.validation.compatible <=> chartJob.table.rows <= 15
          /\ ~chartJob.validation.compatible
               => chartJob.validation.reason.count = chartJob.table.rows
  /\ (Offered /\ Categorical(chartJob.table))
       => \A t \in chartJob.options \cap RadialTypes :
            t \in Selectable(chartJob.offer) <=> chartJob.table.rows <= 15

\* C12: for a categorical table the vertical bar chart is incompatible exactly
\* when the category count is greater than 30, both in validation and in the
\* classification of the options of an offer.
C12_BarCeilingIsThirty ==
  /\ (Validated /\ Categorical(chartJob.table) /\ chartJob.type = "bar")
       => (chartJob.validation.compatible <=> chartJob.table.rows <= 30)
  /\ (Offered /\ Categorical(chartJob.table) /\ "bar" \in chartJob.options)
       => ("bar" \in Selectable(chartJob.offer) <=> chartJob.table.rows <= 30)

HorizontalSpellings == {"horizontal_bar", "horizontalBar"}

\* C13: the horizontal bar chart is compatible with every non-empty categorical
\* table, for every category count, under the spellings horizontal_bar and
\* horizontalBar, and wherever the options of an offer list it, it is shown
\* as a selectable option.
C13_HorizontalBarAlwaysCompatible ==
  /\ (Validated /\ Categorical(chartJob.table) /\ chartJob.type \in HorizontalSpellings)
       => chartJob.validation.compatible
  /\ (Offered /\ Categorical(chartJob.table))
       => /\ \A t \in HorizontalSpellings : isHRCompatible(t, chartJob.table)
          /\ \A t \in chartJob.options \cap HorizontalSpellings :
               chartJob.shown /\ t \in Selectable(chartJob.offer)

C13_Witness ==
  /\ chartJob.pc = "offered"
  /\ chartJob.type = "horizontalBar"
  /\ Categorical(chartJob.table) /\ chartJob.table.rows = 40
  /\ chartJob.validation.compatible
  /\ chartJob.shown
  /\ "horizontal_bar" \in chartJob.offer.alternatives

\* rows that all carry numeric x and y
HasCoordinates(table) ==
  /\ table.rows > 0
  /\ Includes(table.keys, "x") /\ Includes(table.keys, "y")
  /\ table.uniform /\ table.numeric

\* C14: bubble and scatter are compatible with a table if and only if its rows
\* carry explicit numeric x and y fields: never with a category -> value table,
\* and not with a table of which only some rows carry x and y or whose x and y
\* are not numbers; and a build succeeds for them only on such a table.
C14_CoordinateChartsNeedXY ==
  /\ (Validated /\ chartJob.type \in {"bubble", "scatter"})
       => (chartJob.validation.compatible <=> HasCoordinates(chartJob.table))
  /\ (chartJob.pc \in {"built", "offered", "rendered"}
        /\ chartJob.type \in {"bubble", "scatter"})
       => (~chartJob.build.threw <=> HasCoordinates(chartJob.table))

\* C15: for every categorical table the line chart is compatible, it is shown
\* as a selectable alternative wherever the options of an offer list it, and it
\* is never the recommended type.
C15_LineIsAnAlternative ==
  /\ (Validated /\ Categorical(chartJob.table) /\ chartJob.type = "line")
       => chartJob.validation.compatible
  /\ (Offered /\ Categorical(chartJob.table) /\ "line" \in chartJob.options)
       => /\ "line" \in chartJob.offer.alternatives
          /\ "line" \notin chartJob.offer.recommended

\* C16: with more than 35 categories the primary recommendation is table, and
\* no chart is created when table is chosen; chart types stay selectable: an
\* offer shown has a selectable option and keeps a chart type among them.
C16_TableRecommendedAbove35 ==
  /\ (Offered /\ Categorical(chartJob.table) /\ chartJob.table.rows > 35
        /\ "table" \in chartJob.options)
       => chartJob.offer.recommended = {"table"}
  /\ (Offered /\ chartJob.shown)
       => /\ Selectable(chartJob.offer) # {}
          /\ Selectable(chartJob.offer) \ {"table"} # {}
  /\ (chartJob.pc = "rendered" /\ Categorical(chartJob.table)
        /\ chartJob.table.rows > 35 /\ chartJob.render.type = "table")
       => chartJob.render.instance = NoConfig

\* C17: when validation reports a pair incompatible it gives a reason, and a
\* build for the pair throws the incompatibility error carrying that same
\* reason and returns no configuration; when validation reports it compatible
\* the build returns a configuration.
C17_BuildAgreesWithValidation ==
  chartJob.pc \in {"built", "offered", "rendered"}
    => /\ ~chartJob.validation.compatible
            => /\ chartJob.validation.reason # NoReason
               /\ chartJob.build.threw
               /\ chartJob.build.prefix = "HR Chart incompatible: "
               /\ chartJob.build.reason = chartJob.validation.reason
               /\ chartJob.build.config = NoConfig
       /\ chartJob.validation.compatible
            => /\ ~chartJob.build.threw
               /\ chartJob.build.config # NoConfig

C17_Witness ==
  /\ chartJob.pc = "built"
  /\ chartJob.type = "pie"
  /\ Categorical(chartJob.table) /\ chartJob.table.rows = 40
  /\ ~chartJob.validation.compatible
  /\ chartJob.build.threw
  /\ chartJob.build.reason = Reason("too_many_for_readability", 40, "pie")

(***************************************************************************)
(* Claims on the data of an offer (SpecViz)                                *)
(***************************************************************************)
\* C18: every chart offer shown and every chart built for a turn uses the table
\* of that turn: when the options of an offer are rendered, and when a selected
\* chart is rendered, getHRAnalyticsData finds the turn's table in the cache and
\* does not substitute the built-in 'Category A/B/C' sample.
C18_OffersUseTheTurnsTable ==
  [][ \A k \in Keys :
        (OfferFetchDone(k, TRUE) \/ renderSelectedChart(k, TRUE))
          => getHRAnalyticsData(hrAnalyticsCache, k) # "sample" ]_vars

(***************************************************************************)
(* Claims on the extractor (SpecExtract)                                   *)
(***************************************************************************)
\* a valid table: rows is a non-empty array and every row has at least 2 keys
ValidTable(table) ==
  /\ table.kind = "object"
  /\ table.rows.kind = "array"
  /\ Len(table.rows.items) > 0
  /\ \A i \in 1..Len(table.rows.items) :
       table.rows.items[i].kind = "object" /\ Len(table.rows.items[i].keys) >= 2

\* C19: the extractor returns a table only when the table is valid (rows
\* non-empty, every row with at least 2 keys); for every other input it returns
\* null, stores nothing for the turn, and never throws.
C19_ExtractorReturnsValidOrNull ==
  /\ extractJob.pc # "input"
       => (extractJob.result # NullTable => ValidTable(extractJob.result))
  /\ extractJob.pc = "cached"
       => /\ ~extractJob.entry.threw
          /\ extractJob.entry.stored => ValidTable(extractJob.entry.table)

\* the shapes of an input: its own columns and rows, and its data field
DirectShape(input) == Table(input.columns, input.rows)
NestedShape(input) == input.data
WithColumns(table) ==
  /\ ValidTable(table)
  /\ table.columns.kind = "array" /\ Len(table.columns.items) >= 2
RowsOnly(table) == ValidTable(table) /\ table.columns = Undefined
InferColumns(table) == Table(Array(table.rows.items[1].keys), table.rows)

\* C20: the extractor tries direct {columns, rows}, then nested
\* {data: {columns, rows}}, then {rows} without columns (columns inferred from
\* the keys of the first row, the first the category and the second the value)
\* and the table it ends with is the first of these that is valid: the same
\* table presented in any of the three shapes is extracted as the same table.
C20_ShapesTriedInOrder ==
  LET input == extractJob.input
      entry == extractJob.entry
      Extracts(table) ==
        /\ entry.stored
        /\ entry.table = table
        /\ entry.categoryKey = table.columns.items[1]
        /\ entry.valueKey = table.columns.items[2] IN
  (extractJob.pc = "cached" /\ input.kind = "object")
    => IF WithColumns(DirectShape(input)) THEN Extracts(DirectShape(input))
       ELSE IF WithColumns(NestedShape(input)) THEN Extracts(NestedShape(input))
       ELSE IF RowsOnly(DirectShape(input)) THEN Extracts(InferColumns(DirectShape(input)))
       ELSE TRUE

(***************************************************************************)
(* Claims of the third group                                               *)
(***************************************************************************)
\* the requests sent by a step
SentBy == {r \in ReqIds : reqStage[r] = "unused" /\ reqStage'[r] = "fetch"}

\* C26: with no request pending and call mode off, a text submitted from the
\* landing input (startFromLanding) sends exactly one /ask request, and the
\* pending flag stays set until that request completes.
C26_LandingSendsOneAsk ==
  [][ (startFromLanding /\ ~isCallModeActive)
        => /\ Cardinality(SentBy) = 1
           /\ isWaitingForResponse' ]_vars

\* C27: for every cached table, selecting a chart type the offer shows as
\* selectable creates the chart (the validation at creation accepts the pair),
\* and a type that the validation at creation accepts is not shown disabled.
C27_SelectableOptionsSucceed ==
  /\ (chartJob.pc = "rendered" /\ Categorical(chartJob.table)
        /\ chartJob.render.type # "table")
       => /\ chartJob.render.instance # NoConfig
          /\ chartJob.render.reason = NoReason
  /\ (Offered /\ chartJob.shown /\ Categorical(chartJob.table))
       => \A t \in chartJob.offer.notSuitable :
            ~validateHRChartCompatibility(t,
                convertToCompatibilityFormat(chartJob.table)).compatible

\* C30: for every interleaving of loadSession, newChat and the completions of
\* the /history fetches, the message view shows only messages of the
\* conversation named by activeChatId: history fetched for a session is never
\* appended after another session or a new chat has become active.
C30_ViewShowsOnlyTheActiveChat ==
  \A owner \in sessionView.messages \cap SessionIds :
    owner = sessionView.activeChatId

(***************************************************************************)
(* Claims on the sortable table (SpecTable, SpecBoards)                    *)
(***************************************************************************)
\* the first dashboard shows a table whose headers were not clicked yet
Rendered(d) == d <= Len(tableJob.dashboards) /\ tableJob.dashboards[d].card # NoCard
Unclicked(d) == tableJob.tableSortState[StringKey(d)] = NoSort
FirstRender == Rendered(1) /\ Unclicked(1)

\* the first column whose name contains one of the keywords
FirstNamed(columns, keywords) == Find(columns, LAMBDA c : ColumnIncludes(c, keywords))

\* more than half of the non-empty cells of the column are strings with a digit
MostlyNumericLabels(rows, col) ==
  LET cells == ColumnCells(rows, col)
      labels == CountOf(cells, CellTruthy)
      numeric == CountOf(cells, LAMBDA c : c.kind = "string" /\ c.n # NoDigits) IN
  labels > 0 /\ 2 * numeric > labels

\* the first rule of a list that names a column
RECURSIVE FirstRule(_, _)
FirstRule(rules, i) ==
  IF rules[i].column # NoColumn \/ i = Len(rules) THEN rules[i] ELSE FirstRule(rules, i + 1)

\* the priority list as the claim states it
StatedSort(rows) ==
  LET columns == rows[1].keys IN
  FirstRule(<<SortOf(FirstNamed(columns, {"band"}), "asc"),
              SortOf(FirstNamed(columns, {"grade", "level", "tier"}), "asc"),
              SortOf(Find(columns, LAMBDA c : MostlyNumericLabels(rows, c)), "asc"),
              SortOf(FirstNamed(columns, {"department", "location", "education"}), "asc"),
              SortOf(findValueColumn(columns, rows[1]), "desc"),
              SortOf(columns[1], "asc")>>, 1)

\* the priority list with the third rule held to a column named category and
\* the fourth rule extended by pendidikan, lokasi and dept
NamedSort(rows) ==
  LET columns == rows[1].keys
      category == FirstNamed(columns, {"category"}) IN
  FirstRule(<<SortOf(FirstNamed(columns, {"band"}), "asc"),
              SortOf(FirstNamed(columns, {"grade", "level", "tier"}), "asc"),
              SortOf(IF category # NoColumn /\ MostlyNumericLabels(rows, category)
                     THEN category ELSE NoColumn, "asc"),
              SortOf(FirstNamed(columns, {"department", "location", "education",
                                          "pendidikan", "lokasi", "dept"}), "asc"),
              SortOf(findValueColumn(columns, rows[1]), "desc"),
              SortOf(columns[1], "asc")>>, 1)

\* the labels shown by a card, in order, under the key named
LabelsShown(card, col) == [i \in 1..Len(card.rows) |-> CellOf(card.rows[i], col)]

SameRows(shown, rows) ==
  /\ Len(shown) = Len(rows)
  /\ \A r \in {rows[i] : i \in 1..Len(rows)} :
       Cardinality({i \in 1..Len(rows) : rows[i] = r})
         = Cardinality({i \in 1..Len(shown) : shown[i] = r})

ScenarioShown(card) ==
  /\ LabelsShown(card, "band") = <<Str("Level", 1), Str("Level", 2), Str("Level", 3)>>
  /\ card.footer = TotalOf("number", 22, <<>>)

\* C21 as stated: the default sort of a rendered table is chosen by the first
\* matching rule of band, grade/level/tier, a column whose values are mostly
\* numeric-looking labels, department/location/education, the first numeric
\* value column (descending), the first column; the table {band, count} with
\* rows 3/10, 1/5, 2/7 is shown in the order 1, 2, 3 with total 22.
C21_DefaultSortAsStated ==
  FirstRender
    => LET dashboard == tableJob.dashboards[1] IN
       /\ dashboard.card.sorted = StatedSort(dashboard.data.rows)
       /\ dashboard.data = ScenarioA => ScenarioShown(dashboard.card)

\* C21: the default sort of a rendered table is a function of the keys of its
\* first row and of its rows, chosen by the first matching rule of: band
\* (ascending), grade/level/tier (ascending), a column named category more than
\* half of whose non-empty values hold a digit (ascending),
\* department/location/education/pendidikan/lokasi/dept (ascending), the first
\* numeric value column that is no category and no percent column
\* (descending), the first key (ascending); the rows shown are the rows of the
\* table, and {band, count} with rows 3/10, 1/5, 2/7 is shown in the order
\* 1, 2, 3 with total 22.
C21_DefaultSortByPriority ==
  FirstRender
    => LET dashboard == tableJob.dashboards[1] IN
       /\ dashboard.card.sorted = NamedSort(dashboard.data.rows)
       /\ tableJob.tableSortState[NumberKey(1)] = NamedSort(dashboard.data.rows)
       /\ SameRows(dashboard.card.rows, dashboard.data.rows)
       /\ dashboard.data = ScenarioA => ScenarioShown(dashboard.card)

C21_Witness ==
  /\ FirstRender
  /\ tableJob.dashboards[1].data = ScenarioA
  /\ tableJob.dashboards[1].card.sorted = SortOf("band", "asc")
  /\ ScenarioShown(tableJob.dashboards[1].card)

\* the rows whose cell under col holds a digit, ascending by the number of
\* its first run of digits and otherwise in their order, then the other rows
\* in their order
NumberOf(row, col) == CellOf(row, col).n
RECURSIVE AscendingByNumber(_, _)
AscendingByNumber(rows, col) ==
  IF rows = <<>> THEN <<>>
  ELSE LET least == CHOOSE i \in 1..Len(rows) :
                      \A j \in 1..Len(rows) :
                        \/ NumberOf(rows[i], col) < NumberOf(rows[j], col)
                        \/ NumberOf(rows[i], col) = NumberOf(rows[j], col) /\ i <= j IN
       <<rows[least]>> \o
         AscendingByNumber(SubSeq(rows, 1, least - 1) \o SubSeq(rows, least + 1, Len(rows)),
                           col)
DigitsFirst(rows, col) ==
  AscendingByNumber(SelectSeq(rows, LAMBDA r : HasDigit(CellOf(r, col))), col)
    \o SelectSeq(rows, LAMBDA r : ~HasDigit(CellOf(r, col)))

\* C25: rows sorted ascending on a column whose name contains band, grade,
\* level or tier are ordered by the first run of digits of each cell, compared
\* as numbers (Band 10 after Band 2), and the cells without a digit follow all
\* cells with digits in their original relative order.
C25_LabelsSortByEmbeddedNumber ==
  Rendered(1)
    => LET dashboard == tableJob.dashboards[1]
           sorted == dashboard.card.sorted IN
       (ColumnIncludes(sorted.column, {"band", "grade", "level", "tier"})
          /\ sorted.direction = "asc")
         => dashboard.card.rows = DigitsFirst(dashboard.data.rows, sorted.column)

\* the sum of the numeric cells of a column
RECURSIVE NumericSum(_, _)
NumericSum(rows, col) ==
  IF rows = <<>> THEN 0
  ELSE NumericSum(Tail(rows), col)
         + (IF CellOf(Head(rows), col).kind = "number" THEN CellOf(Head(rows), col).n ELSE 0)

\* C23: when the backend supplies no total, the total under a table is the sum
\* over all rows of the detected numeric value column (no category and no
\* percent column), non-numeric cells left out and a sum of 0 shown as 0; it is
\* the N/A marker exactly when no numeric value column is detected.
C23_TotalIsTheSumOfTheValueColumn ==
  (Rendered(1) /\ tableJob.dashboards[1].data.total = UndefinedTotal)
    => LET dashboard == tableJob.dashboards[1]
           rows == dashboard.data.rows
           valueColumn == findValueColumn(rows[1].keys, rows[1]) IN
       IF valueColumn # NoColumn
       THEN dashboard.card.footer = TotalOf("number", NumericSum(rows, valueColumn), <<>>)
       ELSE dashboard.card.footer = NotAvailable

\* the direction a click on a column gives, by the sort shown in the header
Flipped(direction) == IF direction = "asc" THEN "desc" ELSE "asc"
ClickSort(shown, column) ==
  IF shown.column = column THEN SortOf(column, Flipped(shown.direction))
  ELSE IF ColumnIncludes(column, {"band", "grade", "level"}) THEN SortOf(column, "asc")
  ELSE SortOf(column, "desc")

\* C22: a click on a column header flips the direction when the column is the
\* active sort column, the one of the default sort at first render included,
\* and otherwise makes the column the active one, ascending for
\* band/grade/level and descending otherwise; the table is re-rendered in
\* that order.
C22_HeaderClickTogglesOrSelects ==
  [][ \A column \in Columns :
        clickHeader(1, column)
          => LET before == tableJob.dashboards[1]
                 after == tableJob'.dashboards[1]
                 sort == ClickSort(before.card.sorted, column) IN
             /\ after.card.sorted = sort
             /\ after.card.rows = sortTableData(before.data.rows, sort.column, sort.direction)
    ]_vars

\* C28: with several dashboards shown, a click on a header of the table of
\* turn T re-sorts and re-renders the table of T with the rows of T and
\* changes the sort state of T only; the rows, the order, the table and the
\* sort state of every other turn stay as they are.
C28_SortTouchesOnlyItsTable ==
  [][ \A d \in 1..MaxDashboards, column \in Columns :
        clickHeader(d, column)
          => LET before == tableJob.dashboards
                 after == tableJob'.dashboards IN
             /\ after[d].card.sorted.column = column
             /\ after[d].card.rows
                  = sortTableData(before[d].data.rows, column, after[d].card.sorted.direction)
             /\ \A e \in 1..Len(before) :
                  e # d => /\ after[e] = before[e]
                           /\ tableJob'.tableSortState[NumberKey(e)]
                                = tableJob.tableSortState[NumberKey(e)]
    ]_vars


(***************************************************************************)
(* Claims on the blocks of a dashboard (SpecDash)                          *)
(***************************************************************************)
\* the place of a block in the stated vertical order
BlockRank(block) ==
  CASE block.kind = "insight" -> 1
    [] block.kind = "facts" -> 2
    [] block.kind = "table" -> 3
    [] OTHER -> 4

BlocksInStatedOrder(blocks) ==
  \A i, j \in 1..Len(blocks) : i < j => BlockRank(blocks[i]) < BlockRank(blocks[j])

\* the answer follows the 'DATA: ... ANALYSIS: ...' pattern
HasDataAnalysisPattern(text) ==
  \E i, j \in 1..Len(text) : i < j /\ text[i] = DataLine /\ text[j] = AnalysisLine

C29_ProcessingEventuallyEnds ==
  (callJob.isCallModeActive /\ callJob.stage = "resetTimer") ~> ~callJob.isProcessingCall
====
